---- MODULE Spec2Model ----
(***************************************************************************)
(* The dependency-free .xlsx codec of src/app.py: _write_simple_xlsx (the  *)
(* encoder nested in export_db_to_excel_bytes) and _read_simple_xlsx (the  *)
(* decoder), with the helpers they call.                                   *)
(*                                                                         *)
(* Text is a sequence of one-character strings.  An integer cell value is  *)
(* a sign and a sequence of decimal digits (so that values beyond 2^31 can *)
(* be written, formatted and parsed); a float is identified by its         *)
(* shortest repr, a sign, integer digits and fraction digits.              *)
(***************************************************************************)
EXTENDS Integers, Sequences, FiniteSets, TLC

(***************************************************************************)
(* Generic helpers on sequences.                                           *)
(***************************************************************************)
Range(s) == { s[i] : i \in 1..Len(s) }

Min2(a, b) == IF a <= b THEN a ELSE b

Max2(a, b) == IF a >= b THEN a ELSE b

\* s[:n] of Python for n >= 0
Take(s, n) == SubSeq(s, 1, Min2(n, Len(s)))

RECURSIVE Concat(_)
\* "".join(parts)
Concat(parts) ==
    IF parts = <<>> THEN <<>> ELSE Head(parts) \o Concat(Tail(parts))

RECURSIVE Repeat(_, _)
Repeat(ch, n) == IF n <= 0 THEN <<>> ELSE <<ch>> \o Repeat(ch, n - 1)

(***************************************************************************)
(* Characters.                                                             *)
(***************************************************************************)
DigitChars == <<"0", "1", "2", "3", "4", "5", "6", "7", "8", "9">>

Alphabet ==
    <<"A", "B", "C", "D", "E", "F", "G", "H", "I", "J", "K", "L", "M",
      "N", "O", "P", "Q", "R", "S", "T", "U", "V", "W", "X", "Y", "Z">>

\* characters str.strip() removes (those of them the model's texts use)
Whitespace == {" ", "\t", "\n", "\r"}

\* control characters that XML 1.0 forbids in a document
XmlIllegal == {"\f"}

IsDigitChar(ch) == \E i \in 1..10 : DigitChars[i] = ch

DigitOf(ch) == (CHOOSE i \in 1..10 : DigitChars[i] = ch) - 1

\* the decimal text of a digit sequence
DigitsText(d) == [i \in 1..Len(d) |-> DigitChars[d[i] + 1]]

RECURSIVE NatDigits(_)
\* the decimal digits of a natural number (f"{n}")
NatDigits(n) ==
    IF n < 10 THEN <<n>> ELSE NatDigits(n \div 10) \o <<n % 10>>

NatText(n) == DigitsText(NatDigits(n))

RECURSIVE LStrip(_)
LStrip(s) ==
    IF s # <<>> /\ Head(s) \in Whitespace THEN LStrip(Tail(s)) ELSE s

RECURSIVE RStrip(_)
RStrip(s) ==
    IF s # <<>> /\ s[Len(s)] \in Whitespace
    THEN RStrip(SubSeq(s, 1, Len(s) - 1))
    ELSE s

\* str.strip()
Strip(s) == RStrip(LStrip(s))

(***************************************************************************)
(* Decimal digit sequences (most significant digit first).                 *)
(***************************************************************************)
RECURSIVE StripLeadingZeros(_)
StripLeadingZeros(d) ==
    IF d = <<>> THEN <<0>>
    ELSE IF Len(d) > 1 /\ Head(d) = 0 THEN StripLeadingZeros(Tail(d))
    ELSE d

RECURSIVE StripTrailingZeros(_)
StripTrailingZeros(f) ==
    IF f # <<>> /\ f[Len(f)] = 0
    THEN StripTrailingZeros(SubSeq(f, 1, Len(f) - 1))
    ELSE f

RECURSIVE LexLeq(_, _)
\* a <= b for digit sequences of equal length
LexLeq(a, b) ==
    IF a = <<>> THEN TRUE
    ELSE IF Head(a) # Head(b) THEN Head(a) < Head(b)
    ELSE LexLeq(Tail(a), Tail(b))

\* a <= b for digit sequences without leading zeros
DigitsLeq(a, b) ==
    IF Len(a) # Len(b) THEN Len(a) < Len(b) ELSE LexLeq(a, b)

RECURSIVE IncDigits(_)
\* d + 1
IncDigits(d) ==
    IF d = <<>> THEN <<1>>
    ELSE IF d[Len(d)] < 9
         THEN SubSeq(d, 1, Len(d) - 1) \o <<d[Len(d)] + 1>>
         ELSE IncDigits(SubSeq(d, 1, Len(d) - 1)) \o <<0>>

RECURSIVE DecDigits(_)
\* d - 1, for d >= 1
DecDigits(d) ==
    IF d[Len(d)] > 0
    THEN StripLeadingZeros(SubSeq(d, 1, Len(d) - 1) \o <<d[Len(d)] - 1>>)
    ELSE StripLeadingZeros(DecDigits(SubSeq(d, 1, Len(d) - 1)) \o <<9>>)

(***************************************************************************)
(* Cell values: what a DataFrame cell can hold.                            *)
(*   none   None                                                           *)
(*   nan    float("nan")                                                   *)
(*   bool   True / False                                                   *)
(*   int    an integer: sign and digits                                    *)
(*   float  a finite float, by its repr  <d>.<f>                           *)
(*   str    text                                                           *)
(*   obj    any other object (a date, bytes, ...), by its str()            *)
(***************************************************************************)
PyNone == [k |-> "none"]

PyNaN == [k |-> "nan"]

PyBool(b) == [k |-> "bool", b |-> b]

PyInt(neg, d) == [k |-> "int", neg |-> neg, d |-> d]

PyFloat(neg, d, f) == [k |-> "float", neg |-> neg, d |-> d, f |-> f]

PyStr(s) == [k |-> "str", s |-> s]

PyObj(s) == [k |-> "obj", s |-> s]

\* value is None or (isinstance(value, float) and pd.isna(value))
IsNull(v) == v.k \in {"none", "nan"}

\* mutant: isinstance(value, numbers.Number), which a bool satisfies
IsNumberOrBool(v) == v.k \in {"int", "float", "nan", "bool"}

\* isinstance(value, numbers.Number) and not isinstance(value, bool)
IsNumber(v) == v.k \in {"int", "float", "nan"}

SignText(neg) == IF neg THEN <<"-">> ELSE <<>>

\* repr of a number that is not a bool
NumberText(v) ==
    IF v.k = "int" THEN SignText(v.neg) \o DigitsText(v.d)
    ELSE IF v.k = "float"
         THEN SignText(v.neg) \o DigitsText(v.d) \o <<".">> \o DigitsText(v.f)
    ELSE <<"n", "a", "n">>

\* str(value)
StrOf(v) ==
    CASE v.k = "none" -> <<"N", "o", "n", "e">>
      [] v.k = "bool" -> IF v.b THEN <<"T", "r", "u", "e">>
                         ELSE <<"F", "a", "l", "s", "e">>
      [] v.k \in {"int", "float", "nan"} -> NumberText(v)
      [] v.k \in {"str", "obj"} -> v.s

\* f"{value}"
FString(v) == StrOf(v)

(***************************************************************************)
(* float(text) and int(as_float).  A decimal of at most 15 significant     *)
(* digits names one double and is that double's repr, so such a double is  *)
(* kept as its decimal.  An integer above 2^53 is rounded to the nearest   *)
(* double (ties to even); the model's integers stay below 2^54.            *)
(***************************************************************************)
Pow53 == <<9, 0, 0, 7, 1, 9, 9, 2, 5, 4, 7, 4, 0, 9, 9, 2>>

Pow54 == <<1, 8, 0, 1, 4, 3, 9, 8, 5, 0, 9, 4, 8, 1, 9, 8, 4>>

RoundToDouble(d) ==
    CASE DigitsLeq(d, Pow53) -> d
      [] ~DigitsLeq(d, Pow53) /\ DigitsLeq(d, Pow54) ->
            LET m == (10 * d[Len(d) - 1] + d[Len(d)]) % 4
            IN  IF m = 1 THEN DecDigits(d)
                ELSE IF m = 3 THEN IncDigits(d)
                ELSE d

AllDigits(s) == \A i \in 1..Len(s) : IsDigitChar(s[i])

DotAt(s) ==
    IF \E i \in 1..Len(s) : s[i] = "."
    THEN CHOOSE i \in 1..Len(s) : s[i] = "." /\ \A j \in 1..(i - 1) : s[j] # "."
    ELSE 0

\* float(raw_text): [ok |-> FALSE] is ValueError
ParseFloat(text) ==
    LET t == Strip(text)
        signed == t # <<>> /\ Head(t) \in {"-", "+"}
        neg == t # <<>> /\ Head(t) = "-"
        body == IF signed THEN Tail(t) ELSE t
        dot == DotAt(body)
        ip == IF dot = 0 THEN body ELSE SubSeq(body, 1, dot - 1)
        fp == IF dot = 0 THEN <<>> ELSE SubSeq(body, dot + 1, Len(body))
    IN  IF AllDigits(ip) /\ AllDigits(fp) /\ Len(ip) + Len(fp) > 0
        THEN [ok |-> TRUE, neg |-> neg,
              d |-> StripLeadingZeros([i \in 1..Len(ip) |-> DigitOf(ip[i])]),
              f |-> StripTrailingZeros([i \in 1..Len(fp) |-> DigitOf(fp[i])])]
        ELSE [ok |-> FALSE]

\* the number an untyped value node holds (src: try float, int if integral)
ParseNumber(text) ==
    LET p == ParseFloat(text)
    IN  IF ~p.ok THEN PyStr(text)
        ELSE IF p.f = <<>>
             THEN LET r == RoundToDouble(p.d)
                  IN  PyInt(p.neg /\ r # <<0>>, r)
             ELSE PyFloat(p.neg, p.d, p.f)

(***************************************************************************)
(* XML character data: xml.sax.saxutils.escape on the way out, the XML     *)
(* parser (ElementTree / expat) on the way in.                             *)
(***************************************************************************)
EscapeChar(ch, quot) ==
    CASE ch = "&" -> <<"&", "a", "m", "p", ";">>
      [] ch = "<" -> <<"&", "l", "t", ";">>
      [] ch = ">" -> <<"&", "g", "t", ";">>
      [] ch = "\"" /\ quot -> <<"&", "q", "u", "o", "t", ";">>
      [] OTHER -> <<ch>>

\* escape(text): & < > replaced
Escape(text) == Concat([i \in 1..Len(text) |-> EscapeChar(text[i], FALSE)])

\* escape(value, {'"': '&quot;'})
EscapeSheetAttr(text) ==
    Concat([i \in 1..Len(text) |-> EscapeChar(text[i], TRUE)])

\* the marker of a document that is not well-formed
NotWellFormed == "ParseError"

SemiAt(s) ==
    IF \E i \in 1..Len(s) : s[i] = ";"
    THEN CHOOSE i \in 1..Len(s) : s[i] = ";" /\ \A j \in 1..(i - 1) : s[j] # ";"
    ELSE 0

EntityChar(name) ==
    CASE name = <<"a", "m", "p">> -> "&"
      [] name = <<"l", "t">> -> "<"
      [] name = <<"g", "t">> -> ">"
      [] name = <<"q", "u", "o", "t">> -> "\""
      [] name = <<"a", "p", "o", "s">> -> "'"
      [] OTHER -> NotWellFormed

RECURSIVE XmlChars(_, _)
\* The characters the parser reports for the raw characters of a text node
\* (attr = FALSE) or of an attribute value (attr = TRUE): entities are
\* replaced, line ends are normalised to "\n", and in an attribute value
\* every white-space character becomes a space.
XmlChars(raw, attr) ==
    IF raw = <<>> THEN <<>>
    ELSE LET ch == Head(raw)
             rest == Tail(raw)
         IN  CASE ch = "<" \/ ch \in XmlIllegal -> <<NotWellFormed>>
               [] ch = "&" ->
                    LET semi == SemiAt(rest)
                    IN  IF semi = 0 THEN <<NotWellFormed>>
                        ELSE <<EntityChar(SubSeq(rest, 1, semi - 1))>>
                             \o XmlChars(SubSeq(rest, semi + 1, Len(rest)), attr)
               [] ch = "\r" ->
                    <<IF attr THEN " " ELSE "\n">>
                    \o XmlChars(IF rest # <<>> /\ Head(rest) = "\n"
                                THEN Tail(rest) ELSE rest, attr)
               [] ch \in {"\n", "\t"} /\ attr -> <<" ">> \o XmlChars(rest, attr)
               [] OTHER -> <<ch>> \o XmlChars(rest, attr)

WellFormedChars(raw, attr) == NotWellFormed \notin Range(XmlChars(raw, attr))

\* element.text of a parsed text node
XmlText(raw) == XmlChars(raw, FALSE)

\* element.attrib[...] of a parsed attribute
XmlAttr(raw) == XmlChars(raw, TRUE)

(***************************************************************************)
(* Column lettering.                                                       *)
(***************************************************************************)
LowerAlphabet ==
    <<"a", "b", "c", "d", "e", "f", "g", "h", "i", "j", "k", "l", "m",
      "n", "o", "p", "q", "r", "s", "t", "u", "v", "w", "x", "y", "z">>

IsLetter(ch) == \E i \in 1..26 : Alphabet[i] = ch \/ LowerAlphabet[i] = ch

\* ord(char.upper()) - 64 for a letter
LetterOrd(ch) == CHOOSE i \in 1..26 : Alphabet[i] = ch \/ LowerAlphabet[i] = ch

RECURSIVE ColumnLettersWithZero(_)
\* mutant: plain base 26, the index is not lowered by one before the division
ColumnLettersWithZero(idx) ==
    IF idx > 0
    THEN ColumnLettersWithZero(idx \div 26) \o <<Alphabet[((idx - 1) % 26) + 1]>>
    ELSE <<>>

RECURSIVE ColumnLetters(_)
\* the while loop of _column_letter, most significant letter first
ColumnLetters(idx) ==
    IF idx > 0
    THEN ColumnLetters((idx - 1) \div 26) \o <<Alphabet[((idx - 1) % 26) + 1]>>
    ELSE <<>>

_column_letter(idx) ==
    IF ColumnLetters(idx) = <<>> THEN <<"A">> ELSE ColumnLetters(idx)

RECURSIVE ColumnIndexFrom(_, _)
ColumnIndexFrom(result, column_ref) ==
    IF column_ref = <<>> THEN result
    ELSE IF ~IsLetter(Head(column_ref))
         THEN ColumnIndexFrom(result, Tail(column_ref))
         ELSE ColumnIndexFrom(result * 26 + LetterOrd(Head(column_ref)),
                              Tail(column_ref))

_column_index(column_ref) == Max2(ColumnIndexFrom(0, column_ref), 1)

(***************************************************************************)
(* Sheet names.                                                            *)
(***************************************************************************)
MaxSheetNameLen == 31

invalid_chars == {"\\", "/", "*", "[", "]", ":", "?"}

IsValidChar(ch) == ch \notin invalid_chars

\* mutant: the name is not stripped
SanitizedBaseUntrimmed(name, position) ==
    LET stripped == SelectSeq(name, IsValidChar)
        sanitized == IF stripped = <<>>
                     THEN <<"S", "h", "e", "e", "t">> \o NatText(position)
                     ELSE stripped
    IN  IF Len(sanitized) > MaxSheetNameLen
        THEN Take(sanitized, MaxSheetNameLen)
        ELSE sanitized

\* name with the invalid characters removed, stripped, "Sheet<position>" when
\* that is empty, cut to 31 characters
SanitizedBase(name, position) ==
    LET stripped == Strip(SelectSeq(name, IsValidChar))
        sanitized == IF stripped = <<>>
                     THEN <<"S", "h", "e", "e", "t">> \o NatText(position)
                     ELSE stripped
    IN  IF Len(sanitized) > MaxSheetNameLen
        THEN Take(sanitized, MaxSheetNameLen)
        ELSE sanitized

\* mutant: the suffix is appended without cutting the base again
SuffixedCandidateUncut(sanitized, suffix) ==
    sanitized \o <<"_">> \o NatText(suffix)

\* sanitized[: 31 - len(suffix_str)] + suffix_str
SuffixedCandidate(sanitized, suffix) ==
    LET suffix_str == <<"_">> \o NatText(suffix)
    IN  Take(sanitized, MaxSheetNameLen - Len(suffix_str)) \o suffix_str

RECURSIVE SuffixLoop(_, _, _, _)
\* while candidate in used: ...
SuffixLoop(sanitized, candidate, suffix, used) ==
    IF candidate \in used
    THEN SuffixLoop(sanitized, SuffixedCandidate(sanitized, suffix),
                    suffix + 1, used)
    ELSE candidate

\* the name _sanitize_sheet_name returns; it also adds that name to used
_sanitize_sheet_name(name, position, used) ==
    LET sanitized == SanitizedBase(name, position)
    IN  SuffixLoop(sanitized, sanitized, 1, used)

RECURSIVE SheetNamesFrom(_, _, _)
\* the worksheet names of the tables from position idx on, used_names being
\* the names given to the tables before them
SheetNamesFrom(names, idx, used_names) ==
    IF idx > Len(names) THEN <<>>
    ELSE LET sheet_name == _sanitize_sheet_name(names[idx], idx, used_names)
         IN  <<sheet_name>>
             \o SheetNamesFrom(names, idx + 1, used_names \cup {sheet_name})

\* sheet_name of every table, in order (used_names starts empty)
SheetNames(tables) ==
    SheetNamesFrom([i \in 1..Len(tables) |-> tables[i].name], 1, {})

(***************************************************************************)
(* The package.  A part is a record; its field kind says which document it *)
(* is, and kind "garbage" is content that is not well-formed XML.  Text    *)
(* nodes and attribute values are kept as the raw characters written       *)
(* between the tags or quotes.  An optional node or attribute is a         *)
(* sequence of length 0 (absent) or 1.  A part name is a sequence of       *)
(* strings, to be read concatenated.                                       *)
(***************************************************************************)
ContentTypesPath == <<"[Content_Types].xml">>

RootRelsPath == <<"_rels/", ".rels">>

CorePath == <<"docProps/", "core.xml">>

AppPath == <<"docProps/", "app.xml">>

WorkbookPath == <<"xl/", "workbook.xml">>

WorkbookRelsPath == <<"xl/", "_rels/workbook.xml.rels">>

StylesPath == <<"xl/", "styles.xml">>

\* f"worksheets/sheet{idx}.xml"
SheetTarget(idx) == <<"worksheets/sheet">> \o NatText(idx) \o <<".xml">>

\* f"xl/worksheets/sheet{idx}.xml"
SheetPath(idx) == <<"xl/">> \o SheetTarget(idx)

\* f"rId{idx}"
RelId(idx) == <<"rId">> \o NatText(idx)

\* mutant: the styles part is not written
FixedPartsWithoutStyles ==
    {ContentTypesPath, RootRelsPath, CorePath, AppPath, WorkbookPath,
     WorkbookRelsPath}

FixedParts ==
    {ContentTypesPath, RootRelsPath, CorePath, AppPath, WorkbookPath,
     WorkbookRelsPath, StylesPath}

Garbage == [kind |-> "garbage"]

NoAttr == "(absent)"

\* <c r="..."/>
EmptyCell(cell_ref) == [r |-> cell_ref, t |-> NoAttr, v |-> <<>>, is |-> <<>>]

\* the rows the encoder writes for a DataFrame: the column names, if any,
\* then every record with None / NaN replaced by ""
EncoderRows(df) ==
    (IF df.columns # <<>>
     THEN << [c \in 1..Len(df.columns) |-> PyStr(StrOf(df.columns[c]))] >>
     ELSE <<>>)
    \o [i \in 1..Len(df.rows) |->
          [c \in 1..Len(df.rows[i]) |->
             IF IsNull(df.rows[i][c]) THEN PyStr(<<>>) ELSE df.rows[i][c]]]

\* max((len(r) for r in rows), default=0)
MaxColumns(rows) ==
    IF rows = <<>> THEN 0
    ELSE CHOOSE m \in { Len(rows[i]) : i \in 1..Len(rows) } :
            \A i \in 1..Len(rows) : Len(rows[i]) <= m

\* mutant: the range form is written for a sheet without columns too
DimensionAlwaysRange(rows) ==
    LET max_columns == MaxColumns(rows)
        max_rows == IF Len(rows) = 0 THEN 1 ELSE Len(rows)
    IN  <<"A", "1", ":">> \o _column_letter(max_columns) \o NatText(max_rows)

\* the ref attribute of <dimension>
Dimension(rows) ==
    LET max_columns == MaxColumns(rows)
        max_rows == IF Len(rows) = 0 THEN 1 ELSE Len(rows)
    IN  IF max_columns = 0 THEN <<"A", "1">>
        ELSE <<"A", "1", ":">> \o _column_letter(max_columns) \o NatText(max_rows)

\* row[c_idx - 1], "" on IndexError
CellAt(row, c_idx) == IF c_idx <= Len(row) THEN row[c_idx] ELSE PyStr(<<>>)

\* mutant: an empty text is written as an inline string, not as an empty cell
EncodeCellEmptyText(cell_ref, value) ==
    IF IsNull(value) THEN EmptyCell(cell_ref)
    ELSE IF IsNumber(value)
         THEN [r |-> cell_ref, t |-> NoAttr, v |-> <<FString(value)>>,
               is |-> <<>>]
    ELSE IF value.k = "bool"
         THEN [r |-> cell_ref, t |-> "b",
               v |-> <<IF value.b THEN <<"1">> ELSE <<"0">>>>, is |-> <<>>]
    ELSE [r |-> cell_ref, t |-> "inlineStr", v |-> <<>>,
          is |-> <<Escape(StrOf(value))>>]

\* mutant: only a str is written as text, any other object is dropped
EncodeCellStrOnly(cell_ref, value) ==
    IF IsNull(value) \/ value = PyStr(<<>>) THEN EmptyCell(cell_ref)
    ELSE IF IsNumber(value)
         THEN [r |-> cell_ref, t |-> NoAttr, v |-> <<FString(value)>>,
               is |-> <<>>]
    ELSE IF value.k = "bool"
         THEN [r |-> cell_ref, t |-> "b",
               v |-> <<IF value.b THEN <<"1">> ELSE <<"0">>>>, is |-> <<>>]
    ELSE IF value.k # "str" THEN EmptyCell(cell_ref)
    ELSE [r |-> cell_ref, t |-> "inlineStr", v |-> <<>>,
          is |-> <<Escape(value.s)>>]

\* the <c> element written for one value
EncodeCell(cell_ref, value) ==
    IF IsNull(value) \/ value = PyStr(<<>>) THEN EmptyCell(cell_ref)
    ELSE IF IsNumber(value)
         THEN [r |-> cell_ref, t |-> NoAttr, v |-> <<FString(value)>>,
               is |-> <<>>]
    ELSE IF value.k = "bool"
         THEN [r |-> cell_ref, t |-> "b",
               v |-> <<IF value.b THEN <<"1">> ELSE <<"0">>>>, is |-> <<>>]
    ELSE LET text_value == StrOf(value)
         IN  IF text_value = <<>> THEN EmptyCell(cell_ref)
             ELSE [r |-> cell_ref, t |-> "inlineStr", v |-> <<>>,
                   is |-> <<Escape(text_value)>>]

\* <row r="{r_idx}"> with one cell per column 1..max_columns
EncodeRow(r_idx, row, max_columns) ==
    [r |-> r_idx,
     cells |-> [c_idx \in 1..max_columns |->
                  EncodeCell(_column_letter(c_idx) \o NatText(r_idx),
                             CellAt(row, c_idx))]]

\* sheet_xml of one DataFrame
SheetXml(df) ==
    LET rows == EncoderRows(df)
    IN  [kind |-> "worksheet",
         dimension |-> Dimension(rows),
         rows |-> [r_idx \in 1..Len(rows) |->
                     EncodeRow(r_idx, rows[r_idx], MaxColumns(rows))]]

\* sheet_entries: (sheet_name, sheet_xml) per table, in order
SheetEntries(tables) ==
    [i \in 1..Len(tables) |->
       [name |-> SheetNames(tables)[i], xml |-> SheetXml(tables[i].df)]]

ContentTypesXml(sheet_entries) ==
    [kind |-> "types",
     overrides |-> <<<<"/">> \o WorkbookPath, <<"/">> \o StylesPath>>
                   \o [idx \in 1..Len(sheet_entries) |-> <<"/">> \o SheetPath(idx)]]

WorkbookXml(sheet_entries) ==
    [kind |-> "workbook",
     sheets |-> [idx \in 1..Len(sheet_entries) |->
                   [name |-> <<EscapeSheetAttr(sheet_entries[idx].name)>>,
                    sheetId |-> NatText(idx),
                    rid |-> <<RelId(idx)>>]]]

\* mutant: the relationships target the worksheet parts in reverse order
WorkbookRelsXmlReversed(sheet_entries) ==
    [kind |-> "rels",
     rels |-> [idx \in 1..Len(sheet_entries) |->
                 [Id |-> RelId(idx), Type |-> "worksheet",
                  Target |-> SheetTarget(Len(sheet_entries) + 1 - idx)]]
              \o <<[Id |-> RelId(Len(sheet_entries) + 1), Type |-> "styles",
                    Target |-> <<"styles.xml">>]>>]

WorkbookRelsXml(sheet_entries) ==
    [kind |-> "rels",
     rels |-> [idx \in 1..Len(sheet_entries) |->
                 [Id |-> RelId(idx), Type |-> "worksheet",
                  Target |-> SheetTarget(idx)]]
              \o <<[Id |-> RelId(Len(sheet_entries) + 1), Type |-> "styles",
                    Target |-> <<"styles.xml">>]>>]

\* the archive written from sheet_entries: every part of it
WriteParts(sheet_entries) ==
    LET sheet_paths == { SheetPath(idx) : idx \in 1..Len(sheet_entries) }
    IN  [zip |-> TRUE,
         parts |->
           [path \in FixedParts \cup sheet_paths |->
              CASE path = ContentTypesPath -> ContentTypesXml(sheet_entries)
                [] path = RootRelsPath -> [kind |-> "package-rels"]
                [] path = CorePath -> [kind |-> "core"]
                [] path = AppPath -> [kind |-> "app"]
                [] path = WorkbookPath -> WorkbookXml(sheet_entries)
                [] path = WorkbookRelsPath -> WorkbookRelsXml(sheet_entries)
                [] path = StylesPath -> [kind |-> "styles"]
                [] OTHER ->
                     sheet_entries[CHOOSE idx \in 1..Len(sheet_entries) :
                                      SheetPath(idx) = path].xml]]

\* the archive _write_simple_xlsx returns
_write_simple_xlsx(tables) == WriteParts(SheetEntries(tables))

(***************************************************************************)
(* The decoder.                                                            *)
(***************************************************************************)
\* ET.fromstring(part) succeeds: the part is XML and every attribute value
\* and text node in it is well-formed character data
ParsesAsXml(part) ==
    CASE part.kind = "garbage" -> FALSE
      [] part.kind = "workbook" ->
            \A i \in 1..Len(part.sheets) :
                \A j \in 1..Len(part.sheets[i].name) :
                    WellFormedChars(part.sheets[i].name[j], TRUE)
      [] part.kind = "worksheet" ->
            \A i \in 1..Len(part.rows) :
                \A c \in 1..Len(part.rows[i].cells) :
                    LET cell == part.rows[i].cells[c]
                    IN  /\ \A j \in 1..Len(cell.v) : WellFormedChars(cell.v[j], FALSE)
                        /\ \A j \in 1..Len(cell.is) : WellFormedChars(cell.is[j], FALSE)
      [] OTHER -> TRUE

\* int(text): [ok |-> FALSE] is ValueError
ParseInt(text) ==
    LET t == Strip(text)
        signed == t # <<>> /\ Head(t) \in {"-", "+"}
        body == IF signed THEN Tail(t) ELSE t
    IN  IF body # <<>> /\ AllDigits(body)
        THEN [ok |-> TRUE,
              zero |-> StripLeadingZeros([i \in 1..Len(body) |-> DigitOf(body[i])]) = <<0>>]
        ELSE [ok |-> FALSE]

\* mutant: a cell without a value decodes to "" instead of None
ParseCellValueBlankText(cell) ==
    IF cell.t = "inlineStr"
    THEN IF cell.is = <<>> THEN PyStr(<<>>) ELSE PyStr(XmlText(cell.is[1]))
    ELSE IF cell.t = "b"
         THEN LET raw == IF cell.v = <<>> \/ XmlText(cell.v[1]) = <<>>
                         THEN <<"0">> ELSE XmlText(cell.v[1])
                  n == ParseInt(raw)
              IN  IF n.ok THEN PyBool(~n.zero) ELSE PyBool(FALSE)
    ELSE IF cell.v = <<>> \/ Strip(XmlText(cell.v[1])) = <<>>
         THEN PyStr(<<>>)
         ELSE ParseNumber(XmlText(cell.v[1]))

_parse_cell_value(cell) ==
    IF cell.t = "inlineStr"
    THEN IF cell.is = <<>> THEN PyNone ELSE PyStr(XmlText(cell.is[1]))
    ELSE IF cell.t = "b"
         THEN LET raw == IF cell.v = <<>> \/ XmlText(cell.v[1]) = <<>>
                         THEN <<"0">> ELSE XmlText(cell.v[1])
                  n == ParseInt(raw)
              IN  IF n.ok THEN PyBool(~n.zero) ELSE PyBool(FALSE)
    ELSE IF cell.v = <<>> \/ Strip(XmlText(cell.v[1])) = <<>>
         THEN PyNone
         ELSE ParseNumber(XmlText(cell.v[1]))

RECURSIVE LeadingLetters(_)
\* re.match(r"([A-Za-z]+)", ref): <<>> when there is no match
LeadingLetters(ref) ==
    IF ref # <<>> /\ IsLetter(Head(ref))
    THEN <<Head(ref)>> \o LeadingLetters(Tail(ref))
    ELSE <<>>

RECURSIVE RowValuesFrom(_, _, _, _)
\* the loop over the cells of one row, from cell i on
RowValuesFrom(cells, i, row_values, current_col) ==
    IF i > Len(cells) THEN row_values
    ELSE LET match == LeadingLetters(cells[i].r)
             col_index == IF match # <<>> THEN _column_index(match)
                          ELSE current_col
             gap == IF current_col < col_index THEN col_index - current_col
                    ELSE 0
         IN  RowValuesFrom(cells, i + 1,
                           row_values \o [k \in 1..gap |-> PyNone]
                                      \o <<_parse_cell_value(cells[i])>>,
                           current_col + gap + 1)

\* rows of a parsed worksheet ("main:sheetData/main:row")
SheetRows(sheet_xml) ==
    IF sheet_xml.kind # "worksheet" THEN <<>>
    ELSE [i \in 1..Len(sheet_xml.rows) |->
            RowValuesFrom(sheet_xml.rows[i].cells, 1, <<>>, 1)]

\* r.extend([None] * (n - len(r))), then row[:n]
PadTo(row, n) == Take(row \o [k \in 1..(n - Len(row)) |-> PyNone], n)

\* mutant: only "" is blank, a None cell counts as a value
NotBlankUnlessEmptyText(cell) == cell # PyStr(<<>>)

\* cell not in (None, "")
NotBlank(cell) == cell # PyNone /\ cell # PyStr(<<>>)

\* float(n) for an integer
IntToFloat(v) ==
    LET r == RoundToDouble(v.d) IN PyFloat(v.neg, r, <<0>>)

\* The values pandas stores for one column of a list of rows: a column of
\* numbers (int, float) and None is held as float64 as soon as it has a float
\* or a None in it; any other column keeps its objects.
ColumnValues(col) ==
    LET kinds == { col[i].k : i \in 1..Len(col) }
    IN  IF /\ kinds \subseteq {"int", "float", "none", "nan"}
           /\ kinds \cap {"int", "float", "nan"} # {}
           /\ kinds # {"int"}
        THEN [i \in 1..Len(col) |->
                CASE col[i].k = "int" -> IntToFloat(col[i])
                  [] col[i].k = "none" -> PyNaN
                  [] OTHER -> col[i]]
        ELSE col

EmptyFrame == [columns |-> <<>>, rows |-> <<>>]

\* pd.DataFrame(data_rows, columns=header)
DataFrame(data_rows, header) ==
    LET cols == [c \in 1..Len(header) |->
                   ColumnValues([i \in 1..Len(data_rows) |-> data_rows[i][c]])]
    IN  [columns |-> header,
         rows |-> [i \in 1..Len(data_rows) |->
                     [c \in 1..Len(header) |-> cols[c][i]]]]

\* mutant: the width of the first row is taken as the width of the sheet
FrameOfRowsHeaderWidth(rows) ==
    IF rows = <<>> THEN EmptyFrame
    ELSE LET max_columns == Len(rows[1])
             padded == [i \in 1..Len(rows) |-> PadTo(rows[i], max_columns)]
             header == [c \in 1..max_columns |->
                          IF padded[1][c] # PyNone
                          THEN Strip(StrOf(padded[1][c])) ELSE <<>>]
             kept(row) == \E c \in 1..Len(row) : NotBlank(row[c])
         IN  DataFrame(SelectSeq(Tail(padded), kept), header)

\* the DataFrame built from the rows of one worksheet
FrameOfRows(rows) ==
    IF rows = <<>> THEN EmptyFrame
    ELSE LET max_columns == MaxColumns(rows)
             padded == [i \in 1..Len(rows) |-> PadTo(rows[i], max_columns)]
             header == [c \in 1..max_columns |->
                          IF padded[1][c] # PyNone
                          THEN Strip(StrOf(padded[1][c])) ELSE <<>>]
             kept(row) == \E c \in 1..Len(row) : NotBlank(row[c])
         IN  DataFrame(SelectSeq(Tail(padded), kept), header)

\* relationships.get(rel_id): the Target of the last Relationship with that
\* Id, <<>> when there is none
RelationshipTarget(rel_tree, rel_id) ==
    LET hits == IF rel_tree.kind # "rels" THEN {}
                ELSE { i \in 1..Len(rel_tree.rels) : rel_tree.rels[i].Id = rel_id }
    IN  IF hits = {} THEN <<>>
        ELSE rel_tree.rels[CHOOSE i \in hits : \A j \in hits : j <= i].Target

RECURSIVE LStripSlash(_)
\* target.lstrip("/")
LStripSlash(target) ==
    IF target # <<>> /\ Head(target) = "/" THEN LStripSlash(Tail(target))
    ELSE target

TargetPath(target) ==
    LET target_path == LStripSlash(target)
    IN  IF target_path # <<>> /\ Head(target_path) = "xl/" THEN target_path
        ELSE <<"xl/">> \o target_path

\* mutant: a new key is put in front of the keys already there
DictSetFront(result, sheet_name, frame) ==
    IF \E j \in 1..Len(result) : result[j].name = sheet_name
    THEN [j \in 1..Len(result) |->
            IF result[j].name = sheet_name
            THEN [name |-> sheet_name, frame |-> frame] ELSE result[j]]
    ELSE <<[name |-> sheet_name, frame |-> frame]>> \o result

\* mutant: a key that is there keeps the frame it has
DictSetKeepsEarlier(result, sheet_name, frame) ==
    IF \E j \in 1..Len(result) : result[j].name = sheet_name
    THEN result
    ELSE Append(result, [name |-> sheet_name, frame |-> frame])

\* result[sheet_name] = frame
DictSet(result, sheet_name, frame) ==
    IF \E j \in 1..Len(result) : result[j].name = sheet_name
    THEN [j \in 1..Len(result) |->
            IF result[j].name = sheet_name
            THEN [name |-> sheet_name, frame |-> frame] ELSE result[j]]
    ELSE Append(result, [name |-> sheet_name, frame |-> frame])

Raised(error) == [status |-> error, frames |-> <<>>]

Returned(result) == [status |-> "ok", frames |-> result]

RECURSIVE ReadSheets(_, _, _, _, _)
\* the loop over the declared sheets, from sheet i on
ReadSheets(zf, sheets, rel_tree, i, result) ==
    IF i > Len(sheets) THEN Returned(result)
    ELSE LET sheet == sheets[i]
             sheet_name == IF sheet.name = <<>> THEN <<"S", "h", "e", "e", "t">>
                           ELSE XmlAttr(sheet.name[1])
             rel_id == IF sheet.rid = <<>> THEN <<>> ELSE sheet.rid[1]
             target == RelationshipTarget(rel_tree, rel_id)
             target_path == TargetPath(target)
         IN  IF rel_id = <<>> \/ target = <<>>
             THEN ReadSheets(zf, sheets, rel_tree, i + 1, result)
             ELSE IF target_path \notin DOMAIN zf.parts THEN Raised("KeyError")
             ELSE IF ~ParsesAsXml(zf.parts[target_path]) THEN Raised("ParseError")
             ELSE ReadSheets(zf, sheets, rel_tree, i + 1,
                             DictSet(result, sheet_name,
                                     FrameOfRows(SheetRows(zf.parts[target_path]))))

\* mutant: missing or unparseable relationships are read as no relationships
ReadSimpleXlsxLenient(buffer) ==
    IF ~buffer.zip THEN Raised("BadZipFile")
    ELSE IF WorkbookPath \notin DOMAIN buffer.parts THEN Raised("KeyError")
    ELSE IF ~ParsesAsXml(buffer.parts[WorkbookPath]) THEN Raised("ParseError")
    ELSE IF WorkbookRelsPath \notin DOMAIN buffer.parts THEN Returned(<<>>)
    ELSE IF ~ParsesAsXml(buffer.parts[WorkbookRelsPath]) THEN Returned(<<>>)
    ELSE LET workbook_tree == buffer.parts[WorkbookPath]
             sheets == IF workbook_tree.kind = "workbook"
                       THEN workbook_tree.sheets ELSE <<>>
         IN  ReadSheets(buffer, sheets, buffer.parts[WorkbookRelsPath], 1, <<>>)

\* what _read_simple_xlsx does with a buffer: the error it raises, or the
\* dict it returns (in insertion order)
_read_simple_xlsx(buffer) ==
    IF ~buffer.zip THEN Raised("BadZipFile")
    ELSE IF WorkbookPath \notin DOMAIN buffer.parts THEN Raised("KeyError")
    ELSE IF ~ParsesAsXml(buffer.parts[WorkbookPath]) THEN Raised("ParseError")
    ELSE IF WorkbookRelsPath \notin DOMAIN buffer.parts THEN Raised("KeyError")
    ELSE IF ~ParsesAsXml(buffer.parts[WorkbookRelsPath]) THEN Raised("ParseError")
    ELSE LET workbook_tree == buffer.parts[WorkbookPath]
             sheets == IF workbook_tree.kind = "workbook"
                       THEN workbook_tree.sheets ELSE <<>>
         IN  ReadSheets(buffer, sheets, buffer.parts[WorkbookRelsPath], 1, <<>>)

(***************************************************************************)
(* The state machine.  A caller builds the tables (fetch_db_tables: a dict *)
(* of DataFrames, so the names are distinct and every record has one value *)
(* per column), encodes them, and the bytes - as written, or damaged on    *)
(* the way - are given to the decoder.                                     *)
(***************************************************************************)
VARIABLES
    sheets,     \* the tables to encode: sequence of [name, df]
    archive,    \* the bytes: [zip, parts]
    result,     \* what the decoder did: [status, frames]
    pc,         \* "build", "encoded", "decoded"
    call,       \* a call of a helper function on its own: [fn, arg, ret]
    db,         \* the SQLite database: the committed rows of each table
    session_state   \* st.session_state: the keys set and their values

vars == <<sheets, archive, result, pc, call, db, session_state>>

\* bounds of the model
MaxCells == 2

MaxNamedTables == 3

MaxDamage == 1

\* column labels, as SELECT * gives them (src/app.py:67-99)
ColumnLabels == <<PyStr(<<"i", "d">>), PyStr(<<"a", "d">>)>>

BigOdd == <<9, 0, 0, 7, 1, 9, 9, 2, 5, 4, 7, 4, 0, 9, 9, 3>>

\* the values a cell is drawn from
CellValues ==
    { PyNone, PyNaN, PyStr(<<>>),
      PyBool(TRUE), PyBool(FALSE),
      PyInt(FALSE, <<1, 5, 0, 0>>), PyInt(FALSE, BigOdd),
      PyFloat(FALSE, <<1, 2>>, <<5>>), PyFloat(FALSE, <<3>>, <<0>>),
      PyStr(<<"A", "&", "<", "C", ">", "\"">>),
      PyStr(<<"1", "5", "0", "0">>), PyStr(<<"T", "r", "u", "e">>),
      PyStr(<<"a", "\r", "b">>),
      PyObj(<<"2", "0", "2", "4", "-", "0", "1", "-", "0", "5">>) }

\* the values of the tables whose bytes get damaged
PlainValues == { PyInt(FALSE, <<1, 5, 0, 0>>), PyStr(<<"a">>) }

\* table names, in the order of TABLE_NAMES
CodecNames == << <<"a", "/">>, <<"a">> >>

LongName == Repeat("a", MaxSheetNameLen)

NameInputs ==
    { <<"a">>, <<"a", "/">>, <<" ", "?">>, <<"a", "_", "1">>,
      LongName, LongName \o <<"a">>, LongName \o <<"b">>,
      Take(LongName, MaxSheetNameLen - 2) \o <<"_", "1">> }

\* the tables of the database, in the order of TABLE_NAMES (src/app.py:65)
TABLE_NAMES == <<"students", "groups", "invoices", "payments", "msg_log">>

\* the database after init_db(): every table is there and holds no row
EmptyDb == [t \in Range(TABLE_NAMES) |-> <<>>]

\* st.session_state with none of the login keys set
NoSession == [key \in {} |-> ""]

NoArchive == [zip |-> FALSE, parts |-> <<>>]

NoResult == [status |-> "none", frames |-> <<>>]

NoCall == [fn |-> "none"]

Init ==
    /\ db = EmptyDb
    /\ session_state = NoSession
    /\ sheets = <<>>
    /\ archive = NoArchive
    /\ result = NoResult
    /\ pc = "build"
    /\ call = NoCall

TableNamesOf(tables) == { tables[i].name : i \in 1..Len(tables) }

RECURSIVE SumLen(_)
SumLen(rows) == IF rows = <<>> THEN 0 ELSE Len(Head(rows)) + SumLen(Tail(rows))

RECURSIVE CellCount(_)
\* data cells of all tables
CellCount(tables) ==
    IF tables = <<>> THEN 0
    ELSE SumLen(Head(tables).df.rows) + CellCount(Tail(tables))

\* the caller adds a table (a key of the dict and its DataFrame, still without
\* records)
AddTableFrom(names, max_tables, max_columns) ==
    /\ pc = "build"
    /\ Len(sheets) < max_tables
    /\ \E name \in names \ TableNamesOf(sheets) :
       \E n \in 0..max_columns :
          sheets' = Append(sheets,
                           [name |-> name,
                            df |-> [columns |-> Take(ColumnLabels, n),
                                    rows |-> <<>>]])
    /\ UNCHANGED <<archive, result, pc, call, db, session_state>>

\* the caller adds a record to the table added last
AddRecordFrom(values) ==
    /\ pc = "build"
    /\ sheets # <<>>
    /\ LET n == Len(sheets)
           columns == sheets[n].df.columns
       IN  /\ columns # <<>>
           /\ CellCount(sheets) + Len(columns) <= MaxCells
           /\ \E record \in [1..Len(columns) -> values] :
                 sheets' = [sheets EXCEPT ![n].df.rows = Append(@, record)]
    /\ UNCHANGED <<archive, result, pc, call, db, session_state>>

AddTable ==
    AddTableFrom({ CodecNames[i] : i \in {Len(sheets) + 1} \cap DOMAIN CodecNames },
                 Len(CodecNames), Len(ColumnLabels))

AddRecord == AddRecordFrom(CellValues)

\* export: _write_simple_xlsx()
Encode ==
    /\ pc = "build"
    /\ archive' = _write_simple_xlsx(sheets)
    /\ pc' = "encoded"
    /\ UNCHANGED <<sheets, result, call, db, session_state>>

\* import: _read_simple_xlsx(data_source)
Decode ==
    /\ pc = "encoded"
    /\ result' = _read_simple_xlsx(archive)
    /\ pc' = "decoded"
    /\ UNCHANGED <<sheets, archive, call, db, session_state>>

Next == AddTable \/ AddRecord \/ Encode \/ Decode

Spec == Init /\ [][Next]_vars

\* the export of tables with arbitrary names and no data
AddNamedTable == AddTableFrom(NameInputs, MaxNamedTables, 0)

NextNames == AddNamedTable \/ Encode \/ Decode

SpecNames == Init /\ [][NextNames]_vars

(***************************************************************************)
(* Uploads.  The bytes given to the decoder need not be the bytes the      *)
(* encoder wrote: a part the decoder reads may be replaced by content that *)
(* is not XML, or be missing, or the buffer may be no ZIP archive at all.  *)
(***************************************************************************)
AddPlainRecord == AddRecordFrom(PlainValues)

\* the parts the decoder reads
DecoderParts(buffer) ==
    { path \in DOMAIN buffer.parts :
        path \in {WorkbookPath, WorkbookRelsPath}
        \/ \E idx \in 1..Len(sheets) : path = SheetPath(idx) }

\* how many of the parts the encoder wrote are not in the buffer as written
DamageCount(buffer, tables) ==
    LET written == _write_simple_xlsx(tables)
    IN  Cardinality({ path \in DOMAIN written.parts :
                        \/ path \notin DOMAIN buffer.parts
                        \/ buffer.parts[path] # written.parts[path] })
        + (IF buffer.zip THEN 0 ELSE 1)

CorruptPart ==
    /\ pc = "encoded"
    /\ DamageCount(archive, sheets) < MaxDamage
    /\ \E path \in DecoderParts(archive) :
          /\ archive.parts[path] # Garbage
          /\ archive' = [archive EXCEPT !.parts[path] = Garbage]
    /\ UNCHANGED <<sheets, result, pc, call, db, session_state>>

RemovePart ==
    /\ pc = "encoded"
    /\ DamageCount(archive, sheets) < MaxDamage
    /\ \E path \in DecoderParts(archive) :
          archive' = [archive EXCEPT
                        !.parts = [q \in DOMAIN archive.parts \ {path} |->
                                     archive.parts[q]]]
    /\ UNCHANGED <<sheets, result, pc, call, db, session_state>>

TruncateBytes ==
    /\ pc = "encoded"
    /\ DamageCount(archive, sheets) < MaxDamage
    /\ archive.zip
    /\ archive' = [archive EXCEPT !.zip = FALSE]
    /\ UNCHANGED <<sheets, result, pc, call, db, session_state>>

NextUpload ==
    \/ AddTable \/ AddPlainRecord \/ Encode
    \/ CorruptPart \/ RemovePart \/ TruncateBytes
    \/ Decode

SpecUpload == Init /\ [][NextUpload]_vars

(***************************************************************************)
(* Workbooks of other writers.  An uploaded workbook need not come from    *)
(* the encoder: its worksheet may hold rows of any length, cells in any    *)
(* order, with or without a reference.  Such a worksheet is built here by  *)
(* appending rows and cells to the worksheet of an exported empty table.   *)
(***************************************************************************)
MaxForeignRows == 3

MaxForeignCells == 4

\* the <c> elements another writer may put into row r_idx
ForeignCells(r_idx) ==
    { [r |-> <<"A">> \o NatText(r_idx), t |-> NoAttr, v |-> << <<"7">> >>,
       is |-> <<>>],
      [r |-> <<"C">> \o NatText(r_idx), t |-> "inlineStr", v |-> <<>>,
       is |-> << <<" ", "x">> >>],
      [r |-> <<"B">> \o NatText(r_idx), t |-> "b", v |-> << <<"1">> >>,
       is |-> <<>>],
      [r |-> <<>>, t |-> NoAttr, v |-> <<>>, is |-> <<>>] }

\* the one worksheet part of the uploaded workbook
ForeignSheet == archive.parts[SheetPath(1)]

\* the caller exports one table without columns
AddBlankTable == AddTableFrom({CodecNames[1]}, 1, 0)

\* another writer appends <row r="n"/> to the worksheet
AppendRow ==
    /\ pc = "encoded"
    /\ SheetPath(1) \in DOMAIN archive.parts
    /\ Len(ForeignSheet.rows) < MaxForeignRows
    /\ archive' = [archive EXCEPT !.parts[SheetPath(1)].rows =
                      Append(@, [r |-> Len(@) + 1, cells |-> <<>>])]
    /\ UNCHANGED <<sheets, result, pc, call, db, session_state>>

\* another writer appends a <c> element to the last row of the worksheet
AppendCell ==
    /\ pc = "encoded"
    /\ SheetPath(1) \in DOMAIN archive.parts
    /\ ForeignSheet.rows # <<>>
    /\ SumLen([i \in 1..Len(ForeignSheet.rows) |-> ForeignSheet.rows[i].cells])
          < MaxForeignCells
    /\ LET n == Len(ForeignSheet.rows)
       IN  \E cell \in ForeignCells(n) :
              archive' = [archive EXCEPT !.parts[SheetPath(1)].rows[n].cells =
                             Append(@, cell)]
    /\ UNCHANGED <<sheets, result, pc, call, db, session_state>>

NextForeign == AddBlankTable \/ Encode \/ AppendRow \/ AppendCell \/ Decode

SpecForeign == Init /\ [][NextForeign]_vars

(***************************************************************************)
(* The column lettering on its own: _column_letter is called with an       *)
(* index, _column_index with the letters of a cell reference, and each is  *)
(* then called with what the other returned.                               *)
(***************************************************************************)
MaxIndex == 730

MaxRefLen == 2

\* the letters of cell references: every string of 1..MaxRefLen capitals and
\* some longer ones
ColumnRefs ==
    UNION { [1..n -> Range(Alphabet)] : n \in 1..MaxRefLen }
    \cup { <<"A", "A", "A">>, <<"A", "A", "B">>, <<"Z", "Z", "Z">> }

\* a call in progress: the argument and the values returned so far
InitLetters ==
    /\ db = EmptyDb
    /\ session_state = NoSession
    /\ sheets = <<>>
    /\ archive = NoArchive
    /\ result = NoResult
    /\ pc = "build"
    /\ call \in [fn : {"_column_letter"}, arg : 0..MaxIndex, ret : {<<>>}]
                \cup [fn : {"_column_index"}, arg : ColumnRefs, ret : {<<>>}]

\* the value the next call gets
LastValue == IF call.ret = <<>> THEN call.arg ELSE call.ret[Len(call.ret)]

\* _column_letter(idx) on an index
ColumnLetter ==
    /\ \/ call.fn = "_column_letter" /\ Len(call.ret) = 0
       \/ call.fn = "_column_index" /\ Len(call.ret) = 1
    /\ call' = [call EXCEPT !.ret = Append(@, _column_letter(LastValue))]
    /\ UNCHANGED <<sheets, archive, result, pc, db, session_state>>

\* _column_index(column_ref) on letters
ColumnIndex ==
    /\ \/ call.fn = "_column_index" /\ Len(call.ret) = 0
       \/ call.fn = "_column_letter" /\ Len(call.ret) = 1
    /\ call' = [call EXCEPT !.ret = Append(@, _column_index(LastValue))]
    /\ UNCHANGED <<sheets, archive, result, pc, db, session_state>>

NextLetters == ColumnLetter \/ ColumnIndex

SpecLetters == InitLetters /\ [][NextLetters]_vars

(***************************************************************************)
(* _sanitize_sheet_name on its own, one pass of its while loop per step.   *)
(* The used names are those of earlier calls in the same export; the case  *)
(* of interest is a name that already came before, several times.         *)
(***************************************************************************)
MaxCollisions == 11

\* names of tables
SanitizeNames ==
    { <<"a">>, <<"a", "/">>, <<" ", "a", " ">>, <<" ", "?">>,
      LongName \o <<"b">>, Take(LongName, MaxSheetNameLen - 1),
      Take(LongName, MaxSheetNameLen - 2) \o <<"_", "1">> }

\* used_names after k tables of that name
UsedAfter(name, k) == Range(SheetNamesFrom([i \in 1..k |-> name], 1, {}))

\* the call has run up to `candidate = sanitized; suffix = 1`
InitSanitize ==
    /\ db = EmptyDb
    /\ session_state = NoSession
    /\ sheets = <<>>
    /\ archive = NoArchive
    /\ result = NoResult
    /\ pc = "build"
    /\ \E name \in SanitizeNames : \E k \in 0..MaxCollisions :
          call = [fn |-> "_sanitize_sheet_name",
                  name |-> name,
                  position |-> k + 1,
                  used_before |-> UsedAfter(name, k),
                  used |-> UsedAfter(name, k),
                  sanitized |-> SanitizedBase(name, k + 1),
                  candidate |-> SanitizedBase(name, k + 1),
                  suffix |-> 1,
                  ret |-> <<>>]

\* mutant: the loop gives up after nine suffixes
SuffixStepCapped ==
    /\ call.ret = <<>>
    /\ call.candidate \in call.used
    /\ call.suffix <= 9
    /\ call' = [call EXCEPT
                  !.candidate = SuffixedCandidate(call.sanitized, call.suffix),
                  !.suffix = @ + 1]
    /\ UNCHANGED <<sheets, archive, result, pc, db, session_state>>

\* one pass of `while candidate in used`
SuffixStep ==
    /\ call.ret = <<>>
    /\ call.candidate \in call.used
    /\ call.suffix <= MaxCollisions + 1
    /\ call' = [call EXCEPT
                  !.candidate = SuffixedCandidate(call.sanitized, call.suffix),
                  !.suffix = @ + 1]
    /\ UNCHANGED <<sheets, archive, result, pc, db, session_state>>

\* used.add(candidate); return candidate
SuffixReturn ==
    /\ call.ret = <<>>
    /\ call.candidate \notin call.used
    /\ call' = [call EXCEPT !.used = @ \cup {call.candidate},
                            !.ret = <<call.candidate>>]
    /\ UNCHANGED <<sheets, archive, result, pc, db, session_state>>

NextSanitize == SuffixStep \/ SuffixReturn

SpecSanitize == InitSanitize /\ [][NextSanitize]_vars

\* a call that has started runs on
SpecSanitizeFair == SpecSanitize /\ WF_vars(NextSanitize)

(***************************************************************************)
(* _parse_cell_value on its own, on a <c> element without t attribute      *)
(* whose value node holds some text.                                       *)
(***************************************************************************)
MaxTextLen == 3

\* the characters of value texts
ValueChars == {"7", ".", "-", "a", " "}

\* the texts of value nodes: all short texts and one long number
ValueTexts ==
    UNION { [1..n -> ValueChars] : n \in 1..MaxTextLen }
    \cup { DigitsText(BigOdd) }

InitParse ==
    /\ db = EmptyDb
    /\ session_state = NoSession
    /\ sheets = <<>>
    /\ archive = NoArchive
    /\ result = NoResult
    /\ pc = "build"
    /\ call \in [fn : {"_parse_cell_value"}, arg : ValueTexts, ret : {<<>>}]

\* _parse_cell_value(cell, namespaces) on <c><v>text</v></c>
ParseCellValue ==
    /\ call.fn = "_parse_cell_value"
    /\ call.ret = <<>>
    /\ call' = [call EXCEPT !.ret =
                  <<_parse_cell_value([r |-> <<>>, t |-> NoAttr,
                                       v |-> <<Escape(call.arg)>>, is |-> <<>>])>>]
    /\ UNCHANGED <<sheets, archive, result, pc, db, session_state>>

NextParse == ParseCellValue

SpecParse == InitParse /\ [][NextParse]_vars

(***************************************************************************)
(* Calls one after the other in one process.  An export runs the loop of   *)
(* _write_simple_xlsx table by table, with its used_names and              *)
(* sheet_entries; a later export or import follows it.                     *)
(***************************************************************************)
MaxCalls == 2

\* table names of the exports that follow one another
SessionNames == { <<"a">>, <<"a", "/">> }

InitSession ==
    /\ db = EmptyDb
    /\ session_state = NoSession
    /\ sheets = <<>>
    /\ archive = NoArchive
    /\ result = NoResult
    /\ pc = "build"
    /\ call = [fn |-> "none", used_names |-> {}, sheet_entries |-> <<>>,
               earlier |-> <<>>]

\* the caller puts a table into the dict to export
AddSessionTable == AddTableFrom(SessionNames, Cardinality(SessionNames), 1)

\* mutant: used_names lives on from the export before
BeginExportKeepsNames ==
    /\ pc = "build"
    /\ pc' = "encoding"
    /\ call' = [call EXCEPT !.fn = "_write_simple_xlsx",
                            !.sheet_entries = <<>>]
    /\ UNCHANGED <<sheets, archive, result, db, session_state>>

\* sheet_entries = []; used_names = set()
BeginExport ==
    /\ pc = "build"
    /\ pc' = "encoding"
    /\ call' = [call EXCEPT !.fn = "_write_simple_xlsx",
                            !.used_names = {},
                            !.sheet_entries = <<>>]
    /\ UNCHANGED <<sheets, archive, result, db, session_state>>

\* one pass of the loop over sheets.items()
ExportSheet ==
    /\ pc = "encoding"
    /\ Len(call.sheet_entries) < Len(sheets)
    /\ LET idx == Len(call.sheet_entries) + 1
           sheet_name == _sanitize_sheet_name(sheets[idx].name, idx,
                                              call.used_names)
       IN  call' = [call EXCEPT
                      !.used_names = @ \cup {sheet_name},
                      !.sheet_entries =
                          Append(@, [name |-> sheet_name,
                                     xml |-> SheetXml(sheets[idx].df)])]
    /\ UNCHANGED <<sheets, archive, result, pc, db, session_state>>

\* the parts are written and the bytes returned
EndExport ==
    /\ pc = "encoding"
    /\ Len(call.sheet_entries) = Len(sheets)
    /\ archive' = WriteParts(call.sheet_entries)
    /\ pc' = "encoded"
    /\ UNCHANGED <<sheets, result, call, db, session_state>>

\* the process goes on to its next export
NextCall ==
    /\ pc \in {"encoded", "decoded"}
    /\ Len(call.earlier) + 1 < MaxCalls
    /\ pc' = "build"
    /\ sheets' = <<>>
    /\ call' = [call EXCEPT !.fn = "none", !.earlier = Append(@, sheets)]
    /\ UNCHANGED <<archive, result, db, session_state>>

NextSession ==
    \/ AddSessionTable \/ BeginExport \/ ExportSheet \/ EndExport
    \/ Decode \/ NextCall

SpecSession == InitSession /\ [][NextSession]_vars

(***************************************************************************)
(* export_db_to_excel_bytes: the library writers are tried before the      *)
(* simple encoder.  What a library writer does is not modelled: it returns *)
(* its workbook, or it raises - ModuleNotFoundError when the library is    *)
(* not installed, or some other error.                                     *)
(***************************************************************************)
WriterOutcomes == {"ok", "ModuleNotFoundError", "ValueError"}

\* the bytes pd.ExcelWriter gives with that engine
LibraryWorkbook(engine) == [zip |-> TRUE, engine |-> engine]

\* the call after one more writer has run
Tried(engine, outcome) ==
    [fn |-> "export_db_to_excel_bytes",
     tried |-> (IF call = NoCall THEN <<>> ELSE call.tried)
               \o <<[engine |-> engine, outcome |-> outcome]>>]

\* _write_excel(engine) in the state pc, with its except clause
TryWriter(engine, at, except) ==
    /\ pc = at
    /\ \E outcome \in WriterOutcomes :
          /\ call' = Tried(engine, outcome)
          /\ pc' = CASE outcome = "ok" -> "encoded"
                     [] outcome = "ModuleNotFoundError" -> except
                     [] OTHER -> "raised"
          /\ archive' = IF outcome = "ok" THEN LibraryWorkbook(engine)
                        ELSE archive
    /\ UNCHANGED <<sheets, result, db, session_state>>

\* return _write_excel("openpyxl")
TryOpenpyxl == TryWriter("openpyxl", "build", "except openpyxl")

\* mutant: any error of xlsxwriter leads on to the simple encoder
TryXlsxwriterCatchAll ==
    /\ pc = "except openpyxl"
    /\ \E outcome \in WriterOutcomes :
          /\ call' = Tried("xlsxwriter", outcome)
          /\ pc' = IF outcome = "ok" THEN "encoded" ELSE "except xlsxwriter"
          /\ archive' = IF outcome = "ok" THEN LibraryWorkbook("xlsxwriter")
                        ELSE archive
    /\ UNCHANGED <<sheets, result, db, session_state>>

\* return _write_excel("xlsxwriter")
TryXlsxwriter == TryWriter("xlsxwriter", "except openpyxl", "except xlsxwriter")

\* return _write_simple_xlsx()
WriteSimple ==
    /\ pc = "except xlsxwriter"
    /\ call' = Tried("simple", "ok")
    /\ archive' = _write_simple_xlsx(sheets)
    /\ pc' = "encoded"
    /\ UNCHANGED <<sheets, result, db, session_state>>

NextExport ==
    \/ AddTable \/ AddPlainRecord
    \/ TryOpenpyxl \/ TryXlsxwriter \/ WriteSimple

SpecExport == Init /\ [][NextExport]_vars

(***************************************************************************)
(* _read_excel_workbook: pandas reads the upload, the simple decoder is    *)
(* the fallback.  The upload is a handle with a read position: an          *)
(* in-memory buffer (it has getvalue), or a file object (read only).  What *)
(* pandas returns is not modelled; it reads the handle and returns the     *)
(* sheets or raises.                                                       *)
(***************************************************************************)
\* kinds of handle: io.BytesIO / UploadedFile, or an open file
HandleKinds == {"BytesIO", "file"}

\* read positions: the start of the bytes, or somewhere after it
Positions == {"start", "later"}

\* what pd.read_excel does: the error it raises and whether the message of
\* the error mentions openpyxl
ReaderOutcomes ==
    { [error |-> "none", openpyxl |-> FALSE],
      [error |-> "ModuleNotFoundError", openpyxl |-> TRUE],
      [error |-> "ModuleNotFoundError", openpyxl |-> FALSE],
      [error |-> "ImportError", openpyxl |-> TRUE],
      [error |-> "ImportError", openpyxl |-> FALSE],
      [error |-> "ValueError", openpyxl |-> TRUE] }

\* the sheets pandas returns
LibraryFrames == [status |-> "ok", reader |-> "pandas"]

\* the bytes _coerce_to_buffer gets from the handle: getvalue() gives all of
\* them, read() those after the read position
CoerceToBuffer(handle, position, content) ==
    IF handle = "BytesIO" \/ position = "start" THEN content
    ELSE [zip |-> FALSE, parts |-> <<>>]

\* the caller hands over the upload, read or not
OpenUpload ==
    /\ pc = "encoded"
    /\ call = NoCall
    /\ \E handle \in HandleKinds : \E position \in Positions :
          call' = [fn |-> "_read_excel_workbook", handle |-> handle,
                   position |-> position, library |-> <<>>, simple |-> <<>>]
    /\ UNCHANGED <<sheets, archive, result, pc, db, session_state>>

\* _reset_stream_position(uploaded_file); pd.read_excel(uploaded_file, ...)
LibraryRead ==
    /\ pc = "encoded"
    /\ call # NoCall
    /\ call.library = <<>>
    /\ \E outcome \in ReaderOutcomes : \E position \in Positions :
          /\ call' = [call EXCEPT !.library = <<outcome>>,
                                  !.position = position]
          /\ IF outcome.error = "none"
             THEN pc' = "decoded" /\ result' = LibraryFrames
             ELSE IF /\ outcome.error \in {"ModuleNotFoundError", "ImportError"}
                     /\ outcome.openpyxl
                  THEN pc' = "except import" /\ result' = result
                  ELSE pc' = "raised" /\ result' = Raised(outcome.error)
    /\ UNCHANGED <<sheets, archive, db, session_state>>

\* mutant: the simple decoder reads on from where pandas stopped
SimpleReadNoRewind ==
    /\ pc = "except import"
    /\ LET buffer == CoerceToBuffer(call.handle, call.position, archive)
       IN  /\ result' = _read_simple_xlsx(buffer)
           /\ call' = [call EXCEPT !.simple = <<buffer>>,
                                   !.position = IF call.handle = "file"
                                                THEN "start" ELSE @]
    /\ pc' = "decoded"
    /\ UNCHANGED <<sheets, archive, db, session_state>>

\* _reset_stream_position(uploaded_file); _read_simple_xlsx(uploaded_file)
SimpleRead ==
    /\ pc = "except import"
    /\ LET buffer == CoerceToBuffer(call.handle, "start", archive)
       IN  /\ result' = _read_simple_xlsx(buffer)
           /\ call' = [call EXCEPT !.simple = <<buffer>>,
                                   !.position = "start"]
    /\ pc' = "decoded"
    /\ UNCHANGED <<sheets, archive, db, session_state>>

NextReader ==
    \/ AddTable \/ AddPlainRecord \/ Encode
    \/ OpenUpload \/ LibraryRead \/ SimpleRead

SpecReader == Init /\ [][NextReader]_vars

(***************************************************************************)
(* import_db_from_frames: the tables of the database are replaced by the   *)
(* sheets of an upload, in one transaction of one connection.  A frame is  *)
(* [columns, rows] with plain column labels; a row of a table is a record  *)
(* over the table's columns.                                               *)
(***************************************************************************)
EXPECTED_IMPORT_COLUMNS ==
    [students |-> <<"id", "ad", "soyad", "veli_ad", "veli_tel", "takim",
                    "kayit_tarihi", "dogum_tarihi", "aktif_mi", "uye_tipi">>,
     groups   |-> <<"id", "ad">>,
     invoices |-> <<"id", "student_id", "donem", "tutar",
                    "son_odeme_tarihi", "durum">>,
     payments |-> <<"id", "invoice_id", "tarih", "tutar", "aciklama">>,
     msg_log  |-> <<"id", "phone", "template_name", "msg_type", "payload",
                    "status", "ts">>]

IntegerColumns == {"id", "student_id", "invoice_id", "aktif_mi"}

AmountColumns == {"tutar"}

DateColumns == {"dogum_tarihi", "son_odeme_tarihi", "tarih", "kayit_tarihi"}

\* an exception on its way out of a function
Raise(error, at) == [k |-> "raise", error |-> error, at |-> at]

IsRaise(v) == v.k = "raise"

\* str.replace(",", ".")
CommaToDot(text) == [i \in 1..Len(text) |-> IF text[i] = "," THEN "." ELSE text[i]]

IntegerValue(value, column) ==
    CASE value.k = "bool" -> PyInt(FALSE, IF value.b THEN <<1>> ELSE <<0>>)
      [] value.k = "int" -> value
      [] value.k = "float" ->
            PyInt(value.neg /\ value.d # <<0>>, value.d)
      [] OTHER ->
            LET value_str == Strip(StrOf(value))
            IN  IF value_str # <<>> /\ AllDigits(value_str)
                THEN PyInt(FALSE, StripLeadingZeros(
                        [i \in 1..Len(value_str) |-> DigitOf(value_str[i])]))
                ELSE Raise("ValueError", column)

AmountValue(value, column) ==
    CASE value.k = "bool" ->
            PyFloat(FALSE, IF value.b THEN <<1>> ELSE <<0>>, <<0>>)
      [] value.k = "int" -> PyFloat(value.neg, RoundToDouble(value.d), <<0>>)
      [] value.k = "float" -> value
      [] OTHER ->
            LET parsed == ParseFloat(Strip(CommaToDot(StrOf(value))))
            IN  IF parsed.ok
                THEN PyFloat(parsed.neg, parsed.d,
                             IF parsed.f = <<>> THEN <<0>> ELSE parsed.f)
                ELSE Raise("ValueError", column)

DateValue(value, column) ==
    CASE value.k = "obj" -> PyStr(value.s)
      [] value.k = "str" -> PyStr(Strip(value.s))
      [] OTHER -> Raise("ValueError", column)

_normalize_import_value(value, column) ==
    LET stripped == IF value.k = "str" THEN PyStr(Strip(value.s)) ELSE value
    IN  IF value.k = "none" THEN PyNone
        ELSE IF stripped = PyStr(<<>>) THEN PyNone
        ELSE IF stripped.k = "nan" THEN PyNone
        ELSE IF column \in IntegerColumns THEN IntegerValue(stripped, column)
        ELSE IF column \in AmountColumns THEN AmountValue(stripped, column)
        ELSE IF column \in DateColumns THEN DateValue(stripped, column)
        ELSE stripped

\* sheets.get(table): the frame under the key, <<>> for None
SheetsGet(frames, table) ==
    IF \E i \in 1..Len(frames) : frames[i].name = table
    THEN <<(frames[CHOOSE i \in 1..Len(frames) : frames[i].name = table]).df>>
    ELSE <<>>

\* [col for col in columns if col not in df.columns]
MissingColumns(df, columns) ==
    SelectSeq(columns, LAMBDA col : col \notin Range(df.columns))

ColumnPosition(df, col) ==
    CHOOSE j \in 1..Len(df.columns) : df.columns[j] = col

\* df[columns]: the rows with the expected columns in the expected order
Subset(df, columns) ==
    [i \in 1..Len(df.rows) |->
        [c \in 1..Len(columns) |-> df.rows[i][ColumnPosition(df, columns[c])]]]

RECURSIVE CleanRows(_, _, _, _)
\* one row of the loop: cleaned is the row with its cells normalized
CleanedRow(subset, columns, i, rows, cleaned) ==
    IF \E c \in 1..Len(cleaned) : IsRaise(cleaned[c])
    THEN [raised |-> <<cleaned[CHOOSE c \in 1..Len(cleaned) :
                          /\ IsRaise(cleaned[c])
                          /\ \A b \in 1..(c - 1) : ~IsRaise(cleaned[b])]>>,
          rows |-> rows]
    ELSE CleanRows(subset, columns, i + 1, Append(rows, cleaned))

\* the loop over subset.itertuples(): the cleaned rows from row i on; the
\* first cell that cannot be normalized raises
CleanRows(subset, columns, i, rows) ==
    IF i > Len(subset) THEN [raised |-> <<>>, rows |-> rows]
    ELSE CleanedRow(subset, columns, i, rows,
            [c \in 1..Len(columns) |->
                _normalize_import_value(subset[i][c], columns[c])])

RECURSIVE DigitsValue(_)
DigitsValue(d) ==
    IF d = <<>> THEN 0 ELSE 10 * DigitsValue(SubSeq(d, 1, Len(d) - 1)) + d[Len(d)]

\* the rowid SQLite gives a row inserted without one
NextRowId(rows) ==
    LET ids == { DigitsValue(rows[i].id.d) : i \in 1..Len(rows) }
    IN  IF ids = {} THEN 1 ELSE 1 + (CHOOSE m \in ids : \A n \in ids : n <= m)

\* the constraints of init_db: id is the primary key, groups.ad is UNIQUE
Conflicts(table, rows, row) ==
    \E i \in 1..Len(rows) :
        \/ rows[i].id = row.id
        \/ table = "groups" /\ row.ad # PyNone /\ rows[i].ad = row.ad

RECURSIVE InsertRows(_, _, _, _, _)
\* cursor.executemany("INSERT INTO table (columns) VALUES (?, ...)", rows)
\* into the rows the table holds, from row i on
InsertRows(table, columns, held, rows, i) ==
    IF i > Len(rows) THEN [raised |-> <<>>, rows |-> held]
    ELSE LET given == [c \in Range(columns) |->
                          rows[i][CHOOSE j \in 1..Len(columns) : columns[j] = c]]
             row == IF given.id = PyNone
                    THEN [given EXCEPT !.id = PyInt(FALSE, NatDigits(NextRowId(held)))]
                    ELSE given
         IN  IF Conflicts(table, held, row)
             THEN [raised |-> <<Raise("IntegrityError", table)>>, rows |-> held]
             ELSE InsertRows(table, columns, Append(held, row), rows, i + 1)

\* f"{table}: {len(rows)} satir aktarildi"
Processed(table, count) == [table |-> table, rows |-> count]

\* cursor.executemany(...) has run: inserted is what it did
Executed(table, working, inserted, count) ==
    [raised |-> inserted.raised,
     working |-> [working EXCEPT ![table] = inserted.rows],
     processed |-> IF inserted.raised = <<>>
                   THEN <<Processed(table, count)>> ELSE <<>>]

\* the rows of the sheet are cleaned: insert them
InsertCleaned(table, columns, working, cleaned) ==
    IF cleaned.raised # <<>>
    THEN [raised |-> cleaned.raised, working |-> working, processed |-> <<>>]
    ELSE Executed(table, working,
                  InsertRows(table, columns, <<>>, cleaned.rows, 1),
                  Len(cleaned.rows))

\* mutant: an empty sheet is passed over before its table is emptied
ImportSheetSkipsEmpty(table, columns, df, working) ==
    IF MissingColumns(df, columns) # <<>>
    THEN [raised |-> <<Raise("ValueError", table)>>,
          working |-> working, processed |-> <<>>]
    ELSE IF df.rows = <<>>
    THEN [raised |-> <<>>, working |-> working,
          processed |-> <<Processed(table, 0)>>]
    ELSE InsertCleaned(table, columns, [working EXCEPT ![table] = <<>>],
                       CleanRows(Subset(df, columns), columns, 1, <<>>))

\* one table of the loop whose sheet df is there, in the transaction whose
\* view of the tables is working
ImportSheet(table, columns, df, working) ==
    IF MissingColumns(df, columns) # <<>>
    THEN [raised |-> <<Raise("ValueError", table)>>,
          working |-> working, processed |-> <<>>]
    ELSE IF df.rows = <<>>
    THEN [raised |-> <<>>, working |-> [working EXCEPT ![table] = <<>>],
          processed |-> <<Processed(table, 0)>>]
    ELSE InsertCleaned(table, columns, [working EXCEPT ![table] = <<>>],
                       CleanRows(Subset(df, columns), columns, 1, <<>>))

RECURSIVE ImportTables(_, _, _, _)
\* after one table of the loop
NextTable(frames, i, processed, step) ==
    IF step.raised # <<>>
    THEN [raised |-> step.raised, working |-> step.working,
          processed |-> processed]
    ELSE ImportTables(frames, i + 1, step.working, processed \o step.processed)

\* the loop over EXPECTED_IMPORT_COLUMNS, from table i on
ImportTables(frames, i, working, processed) ==
    IF i > Len(TABLE_NAMES)
    THEN [raised |-> <<>>, working |-> working, processed |-> processed]
    ELSE IF SheetsGet(frames, TABLE_NAMES[i]) = <<>>
    THEN ImportTables(frames, i + 1, working, processed)
    ELSE NextTable(frames, i, processed,
            ImportSheet(TABLE_NAMES[i], EXPECTED_IMPORT_COLUMNS[TABLE_NAMES[i]],
                        SheetsGet(frames, TABLE_NAMES[i])[1], working))

\* "Excel dosyasinda beklenen sayfalar bulunamadi"
NoExpectedSheets == "beklenen sayfalar bulunamadi"

\* mutant: the work of the failed transaction is kept
RollbackKeepsWork(committed, working) == working

\* conn.rollback(): the tables as they were at the last commit
Rollback(committed, working) == committed

\* the end of the call: commit, or rollback in the except clause
Finish(committed, done) ==
    IF done.raised # <<>>
    THEN [db |-> Rollback(committed, done.working),
          ret |-> [ok |-> FALSE, messages |-> done.raised]]
    ELSE [db |-> done.working,
          ret |-> [ok |-> TRUE,
                   messages |-> IF done.processed # <<>> THEN done.processed
                                ELSE <<NoExpectedSheets>>]]

\* import_db_from_frames(sheets) on the database committed: the database
\* after the call and what the call returns
import_db_from_frames(committed, frames) ==
    Finish(committed, ImportTables(frames, 1, committed, <<>>))

\* the sheets of the uploads: a row is given by its id and one more cell
ImportRow(columns, id, cell) ==
    [c \in 1..Len(columns) |->
        IF columns[c] = "id" THEN id
        ELSE IF columns[c] = cell[1] THEN cell[2]
        ELSE IF columns[c] \in IntegerColumns THEN PyFloat(FALSE, <<1>>, <<0>>)
        ELSE IF columns[c] \in AmountColumns THEN PyStr(<<" ", "1", ",", "5">>)
        ELSE IF columns[c] \in DateColumns THEN PyStr(<<"d", " ">>)
        ELSE IF columns[c] = "ad" THEN PyStr(<<"a">>)
        ELSE PyNaN]

Reversed(s) == [i \in 1..Len(s) |-> s[Len(s) + 1 - i]]

NoCell == <<"", PyNone>>

One == PyInt(FALSE, <<1>>)

Two == PyStr(<<"0", "2">>)

\* the frames a sheet of a table is drawn from
ImportFramesOf(table) ==
    LET columns == EXPECTED_IMPORT_COLUMNS[table]
        shuffled == Reversed(columns) \o <<"not">>
        good1 == [columns |-> shuffled,
                  rows |-> <<ImportRow(shuffled, One, NoCell)>>]
        good2 == [columns |-> columns,
                  rows |-> <<ImportRow(columns, Two, NoCell),
                             ImportRow(columns, PyNone, <<"ad", PyStr(<<"b">>)>>)>>]
        empty == [columns |-> columns, rows |-> <<>>]
        short == [columns |-> SubSeq(columns, 1, Len(columns) - 1),
                  rows |-> <<ImportRow(columns, One, NoCell)>>]
        twice == [columns |-> columns,
                  rows |-> <<ImportRow(columns, Two, <<"ad", PyStr(<<"b">>)>>),
                             ImportRow(columns, One, <<"ad", PyStr(<<"b">>)>>)>>]
        bad(cell) == [columns |-> columns,
                      rows |-> <<ImportRow(columns, Two, NoCell),
                                 ImportRow(columns, One, cell)>>]
    IN  CASE table = "students" ->
               {good1, good2, empty, short,
                bad(<<"aktif_mi", PyStr(<<"-", "1">>)>>)}
          [] table = "groups" -> {good1, twice}
          [] table = "invoices" -> {good1, bad(<<"tutar", PyStr(<<"x">>)>>)}
          [] table = "payments" -> {good1, bad(<<"tarih", One>>)}
          [] table = "msg_log" -> {good2, short}
          [] OTHER -> {empty}

\* the keys of an upload: the tables and a sheet that is none of them
ImportNames == TABLE_NAMES \o <<"notlar">>

ImportColumnsOf(name) ==
    IF name \in Range(TABLE_NAMES) THEN ImportFramesOf(name)
    ELSE {[columns |-> <<"not">>, rows |-> <<>>]}

\* the upload gets one more sheet
AddFrame ==
    /\ pc = "build"
    /\ \E i \in 1..Len(ImportNames) :
          /\ \A j \in 1..Len(sheets) :
                \E k \in 1..(i - 1) : ImportNames[k] = sheets[j].name
          /\ \E df \in ImportColumnsOf(ImportNames[i]) :
                sheets' = Append(sheets, [name |-> ImportNames[i], df |-> df])
    /\ UNCHANGED <<archive, result, pc, call, db, session_state>>

\* import_db_from_frames(sheets)
ImportFrames ==
    /\ pc = "build"
    /\ \E done \in {import_db_from_frames(db, sheets)} :
          /\ db' = done.db
          /\ result' = done.ret
    /\ call' = [fn |-> "import_db_from_frames", before |-> db]
    /\ pc' = "imported"
    /\ UNCHANGED <<sheets, archive, session_state>>

\* the next upload
NextUploadedFile ==
    /\ pc = "imported"
    /\ sheets' = <<>>
    /\ result' = NoResult
    /\ call' = NoCall
    /\ pc' = "build"
    /\ UNCHANGED <<archive, db, session_state>>

NextImport == AddFrame \/ ImportFrames \/ NextUploadedFile

SpecImport == Init /\ [][NextImport]_vars

(***************************************************************************)
(* Invoices: add_invoice, mark_paid and compute_status_rollover, each on a *)
(* connection of its own.  What a connection writes is seen by the others  *)
(* at its commit; dates are day numbers, date.today() is read from the     *)
(* clock at each call.                                                     *)
(***************************************************************************)
MaxInvoices == 2

MaxPayments == 2

MaxDay == 2

Days == 1..MaxDay

\* the ids typed into the form: those of the invoices and one more
InvoiceIds == 1..(MaxInvoices + 1)

\* INSERT INTO invoices(...) VALUES(?,?,?,?, 'bekliyor')
InsertInvoice(tables, student_id, donem, tutar, son_odeme_tarihi) ==
    [tables EXCEPT !.invoices = Append(@,
        [id |-> Len(@) + 1, student_id |-> student_id, donem |-> donem,
         tutar |-> tutar, son_odeme_tarihi |-> son_odeme_tarihi,
         durum |-> "bekliyor"])]

\* UPDATE invoices SET durum='odendi' WHERE id=?
UpdatePaid(tables, invoice_id) ==
    [tables EXCEPT !.invoices =
        [i \in 1..Len(@) |->
            IF @[i].id = invoice_id THEN [@[i] EXCEPT !.durum = "odendi"]
            ELSE @[i]]]

\* INSERT INTO payments(invoice_id, tarih, tutar, aciklama) VALUES(?,?,?,?)
InsertPayment(tables, invoice_id, today, tutar) ==
    [tables EXCEPT !.payments = Append(@,
        [id |-> Len(@) + 1, invoice_id |-> invoice_id, tarih |-> today,
         tutar |-> tutar, aciklama |-> "Odeme alindi"])]

\* UPDATE invoices SET durum='gecikti'
\* WHERE durum='bekliyor' AND date(son_odeme_tarihi) < date(?)
UpdateOverdue(tables, today) ==
    [tables EXCEPT !.invoices =
        [i \in 1..Len(@) |->
            IF @[i].durum = "bekliyor" /\ @[i].son_odeme_tarihi < today
            THEN [@[i] EXCEPT !.durum = "gecikti"]
            ELSE @[i]]]

\* no connection is in the middle of its work
Idle == IF call = NoCall THEN TRUE ELSE call.at = "done"

add_invoice ==
    /\ Idle
    /\ Len(db.invoices) < MaxInvoices
    /\ \E son_odeme_tarihi \in Days :
          /\ db' = InsertInvoice(db, 1, "2025-10", 1500, son_odeme_tarihi)
          /\ call' = [fn |-> "add_invoice", at |-> "done", before |-> db,
                      invoice_id |-> 0, today |-> 0, conn |-> db']
    /\ UNCHANGED <<sheets, archive, result, pc, session_state>>

\* mark_paid, to the UPDATE
MarkPaidUpdate ==
    /\ Idle
    /\ Len(db.payments) < MaxPayments
    /\ \E invoice_id \in InvoiceIds : \E today \in Days :
          call' = [fn |-> "mark_paid", at |-> "updated", before |-> db,
                   invoice_id |-> invoice_id, today |-> today,
                   conn |-> UpdatePaid(db, invoice_id)]
    /\ UNCHANGED <<sheets, archive, result, pc, db, session_state>>

\* mark_paid, the INSERT
MarkPaidInsert ==
    /\ call # NoCall
    /\ call.fn = "mark_paid" /\ call.at = "updated"
    /\ call' = [call EXCEPT
                  !.at = "inserted",
                  !.conn = InsertPayment(@, call.invoice_id, call.today, 1500)]
    /\ UNCHANGED <<sheets, archive, result, pc, db, session_state>>

\* mark_paid, conn.commit()
MarkPaidCommit ==
    /\ call # NoCall
    /\ call.fn = "mark_paid" /\ call.at = "inserted"
    /\ db' = call.conn
    /\ call' = [call EXCEPT !.at = "done"]
    /\ UNCHANGED <<sheets, archive, result, pc, session_state>>

compute_status_rollover ==
    /\ Idle
    /\ \E today \in Days :
          /\ db' = UpdateOverdue(db, today)
          /\ call' = [fn |-> "compute_status_rollover", at |-> "done",
                      before |-> db, invoice_id |-> 0, today |-> today,
                      conn |-> db']
    /\ UNCHANGED <<sheets, archive, result, pc, session_state>>

NextInvoices ==
    \/ add_invoice
    \/ MarkPaidUpdate \/ MarkPaidInsert \/ MarkPaidCommit
    \/ compute_status_rollover

SpecInvoices == Init /\ [][NextInvoices]_vars

(***************************************************************************)
(* The login session (src/common.py, src/crm.py): st.session_state is a    *)
(* function from the keys that are set to their values.                    *)
(***************************************************************************)
\* Python's None among the strings
None == "(None)"

USERS ==
    [crm_admin |->
        [username |-> "crm_admin", password |-> "crm123", role |-> "crm",
         display_name |-> "CRM Yoneticisi", coach_code |-> None],
     coach_ahmet |->
        [username |-> "coach_ahmet", password |-> "coach123", role |-> "coach",
         display_name |-> "Koc Ahmet", coach_code |-> "Ahmet"]]

\* what is typed into the form
Usernames == {"crm_admin", "coach_ahmet", ""}

Passwords == {"crm123", "coach123", ""}

\* st.session_state[key] = value
SessionSet(state, key, value) ==
    [k \in (DOMAIN state) \cup {key} |-> IF k = key THEN value ELSE state[k]]

\* st.session_state.pop(key, None)
SessionPop(state, key) == [k \in (DOMAIN state) \ {key} |-> state[k]]

\* st.session_state.get(key, default)
SessionGet(state, key, default) ==
    IF key \in DOMAIN state THEN state[key] ELSE default

\* st.session_state.get("authenticated"), as a condition
Authenticated(state) ==
    IF "authenticated" \in DOMAIN state THEN state["authenticated"] ELSE FALSE

\* authenticate_user: <<user>>, or <<>> for None
authenticate_user(username, password) ==
    IF username \in DOMAIN USERS /\ password = USERS[username].password
    THEN <<USERS[username]>>
    ELSE <<>>

start_user_session(state, user) ==
    LET named ==
            SessionSet(SessionSet(SessionSet(SessionSet(state,
                "authenticated", TRUE),
                "username", user.username),
                "role", user.role),
                "display_name", user.display_name)
    IN  IF user.coach_code # None
        THEN SessionSet(named, "coach_code", user.coach_code)
        ELSE named

\* mutant: the coach_code stays in the session
EndUserSessionKeepsCoachCode(state) ==
    SessionPop(SessionPop(SessionPop(SessionPop(state,
        "authenticated"), "username"), "role"), "display_name")

end_user_session(state) ==
    SessionPop(SessionPop(SessionPop(SessionPop(SessionPop(state,
        "authenticated"), "username"), "role"), "display_name"), "coach_code")

\* get_current_user(): <<the dict>>, or <<>> for None
get_current_user(state) ==
    IF ~Authenticated(state) THEN <<>>
    ELSE <<[username |-> SessionGet(state, "username", None),
            role |-> SessionGet(state, "role", None),
            display_name |-> SessionGet(state, "display_name",
                                        SessionGet(state, "username", None)),
            coach_code |-> SessionGet(state, "coach_code", None)]>>

InitLogin ==
    /\ db = EmptyDb
    /\ session_state = NoSession
    /\ sheets = <<>>
    /\ archive = NoArchive
    /\ result = NoResult
    /\ pc = "build"
    /\ call = [fn |-> "none", username |-> "", password |-> "", earlier |-> {}]

\* crm.py: the form is shown while the session is not authenticated; the
\* form is submitted
show_login_form ==
    /\ ~Authenticated(session_state)
    /\ \E username \in Usernames : \E password \in Passwords :
          LET user == authenticate_user(username, password)
          IN  IF user # <<>>
              THEN /\ session_state' = start_user_session(session_state, user[1])
                   /\ call' = [call EXCEPT !.fn = "start_user_session",
                                           !.username = username,
                                           !.password = password]
              ELSE /\ session_state' = session_state
                   /\ call' = [call EXCEPT !.fn = "show_login_form",
                                           !.username = username,
                                           !.password = password]
    /\ UNCHANGED <<sheets, archive, result, pc, db>>

\* render_logout_button: the button is pressed
Logout ==
    /\ session_state' = end_user_session(session_state)
    /\ call' = [call EXCEPT
                  !.fn = "end_user_session",
                  !.earlier = IF call.fn = "start_user_session"
                              THEN @ \cup {call.username} ELSE @]
    /\ UNCHANGED <<sheets, archive, result, pc, db>>

\* a page asks who is logged in
GetCurrentUser ==
    /\ result' = [status |-> "ok", frames |-> get_current_user(session_state)]
    /\ UNCHANGED <<sheets, archive, pc, call, db, session_state>>

NextLogin == show_login_form \/ Logout \/ GetCurrentUser

SpecLogin == InitLogin /\ [][NextLogin]_vars

(***************************************************************************)
(* Workbooks whose xl/workbook.xml and relationships are not as the        *)
(* encoder writes them: a declared sheet without r:id, a relationship id   *)
(* without Relationship, two declared sheets of one name.  They are made   *)
(* from an exported workbook by editing the two parts.                     *)
(***************************************************************************)
MaxEdits == 2

\* the names of the exported tables
WorkbookNames == << <<"a">>, <<"b">>, <<"c">> >>

AddWorkbookTable ==
    AddTableFrom({ WorkbookNames[i] : i \in {Len(sheets) + 1} \cap DOMAIN WorkbookNames },
                 Len(WorkbookNames), 1)

\* the value of the cells of the exported tables
WorkbookValues == { PyInt(FALSE, <<1, 5, 0, 0>>) }

AddWorkbookRecord == AddRecordFrom(WorkbookValues)

\* the <sheet> elements of xl/workbook.xml
DeclaredSheets(buffer) == buffer.parts[WorkbookPath].sheets

\* the <Relationship> elements of xl/_rels/workbook.xml.rels
Relationships(buffer) == buffer.parts[WorkbookRelsPath].rels

\* how many elements of the two parts are not as written: the sheets without
\* r:id, the sheets with the name of a sheet before them, the worksheets
\* without Relationship
EditCount(buffer, tables) ==
    Cardinality({ i \in 1..Len(DeclaredSheets(buffer)) :
                    DeclaredSheets(buffer)[i].rid = <<>> })
    + Cardinality({ i \in 1..Len(DeclaredSheets(buffer)) :
                      \E j \in 1..(i - 1) :
                          DeclaredSheets(buffer)[j].name = DeclaredSheets(buffer)[i].name })
    + (Len(tables) + 1 - Len(Relationships(buffer)))

\* a <sheet> loses its r:id attribute
DropRelId ==
    /\ pc = "encoded"
    /\ EditCount(archive, sheets) < MaxEdits
    /\ \E i \in 1..Len(DeclaredSheets(archive)) :
          /\ DeclaredSheets(archive)[i].rid # <<>>
          /\ archive' = [archive EXCEPT !.parts[WorkbookPath].sheets[i].rid = <<>>]
    /\ UNCHANGED <<sheets, result, pc, call, db, session_state>>

\* the <Relationship> of a worksheet is taken out
DropRelationship ==
    /\ pc = "encoded"
    /\ EditCount(archive, sheets) < MaxEdits
    /\ \E i \in 1..Len(Relationships(archive)) :
          /\ Relationships(archive)[i].Type = "worksheet"
          /\ archive' = [archive EXCEPT !.parts[WorkbookRelsPath].rels =
                            SubSeq(@, 1, i - 1) \o SubSeq(@, i + 1, Len(@))]
    /\ UNCHANGED <<sheets, result, pc, call, db, session_state>>

\* a <sheet> gets the name of a <sheet> before it
RepeatSheetName ==
    /\ pc = "encoded"
    /\ EditCount(archive, sheets) < MaxEdits
    /\ \E i \in 1..Len(DeclaredSheets(archive)) : \E j \in 1..(i - 1) :
          /\ DeclaredSheets(archive)[i].name # DeclaredSheets(archive)[j].name
          /\ archive' = [archive EXCEPT !.parts[WorkbookPath].sheets[i].name =
                            DeclaredSheets(archive)[j].name]
    /\ UNCHANGED <<sheets, result, pc, call, db, session_state>>

NextWorkbook ==
    \/ AddWorkbookTable \/ AddWorkbookRecord \/ Encode
    \/ DropRelId \/ DropRelationship \/ RepeatSheetName
    \/ Decode

SpecWorkbook == Init /\ [][NextWorkbook]_vars

(***************************************************************************)
(* Properties.                                                             *)
(***************************************************************************)
\* the worksheet names as a reader of xl/workbook.xml sees them
WrittenNames ==
    LET workbook == archive.parts[WorkbookPath]
    IN  [i \in 1..Len(workbook.sheets) |-> XmlAttr(workbook.sheets[i].name[1])]

\* C2: within one encode every worksheet name is non-empty, at most 31
\* characters long, free of \ / * [ ] : ? and different from every name given
\* to an earlier table - also when table names agree on their first 31 or
\* more characters.
C2_SheetNamesLegalAndUnique ==
    pc = "encoded" =>
        /\ Len(WrittenNames) = Len(sheets)
        /\ \A i \in 1..Len(WrittenNames) :
              /\ WrittenNames[i] # <<>>
              /\ Len(WrittenNames[i]) <= 31
              /\ \A j \in 1..Len(WrittenNames[i]) :
                    WrittenNames[i][j] \notin {"\\", "/", "*", "[", "]", ":", "?"}
              /\ \A k \in 1..(i - 1) : WrittenNames[k] # WrittenNames[i]

\* three tables whose names agree on their first 31 characters have been
\* given three different names, two of them suffixed
C2_Witness ==
    /\ pc = "encoded"
    /\ Len(sheets) >= 3
    /\ \A i \in 1..3 :
          /\ Len(sheets[i].name) >= 31
          /\ SubSeq(sheets[i].name, 1, 31) = SubSeq(sheets[1].name, 1, 31)
    /\ Cardinality({ WrittenNames[i] : i \in 1..3 }) = 3
    /\ \A i \in 2..3 : Len(WrittenNames[i]) = 31 /\ WrittenNames[i][30] = "_"

\* the data cells of the tables: <<table, record, column>>
DataCells ==
    { <<i, r, c>> \in (1..Len(sheets)) \X (1..MaxCells) \X (1..Len(ColumnLabels)) :
        r <= Len(sheets[i].df.rows) /\ c <= Len(sheets[i].df.rows[r]) }

InputValue(cell) == sheets[cell[1]].df.rows[cell[2]][cell[3]]

\* the <c> element written for a data cell (row 1 holds the column names)
WrittenCell(cell) ==
    archive.parts[SheetPath(cell[1])].rows[cell[2] + 1].cells[cell[3]]

\* a value that is written as an empty cell
WrittenEmpty(v) == IsNull(v) \/ StrOf(v) = <<>>

\* the records of table i with a value that is not written as an empty cell
FilledRecords(i) ==
    { r \in 1..Len(sheets[i].df.rows) :
        \E c \in 1..Len(sheets[i].df.rows[r]) : ~WrittenEmpty(sheets[i].df.rows[r][c]) }

\* the frame returned under the worksheet name of table i
DecodedFrame(i) ==
    result.frames[CHOOSE j \in 1..Len(result.frames) :
                     result.frames[j].name = WrittenNames[i]].frame

\* the row of the returned frame that holds record cell[2], which is filled
DecodedRow(cell) ==
    Cardinality({ q \in FilledRecords(cell[1]) : q <= cell[2] })

\* a data cell of a filled record has a place in the returned frame
IsDecoded(cell) ==
    /\ result.status = "ok"
    /\ \E j \in 1..Len(result.frames) : result.frames[j].name = WrittenNames[cell[1]]
    /\ cell[2] \in FilledRecords(cell[1])
    /\ DecodedRow(cell) <= Len(DecodedFrame(cell[1]).rows)
    /\ cell[3] <= Len(DecodedFrame(cell[1]).rows[DecodedRow(cell)])

DecodedValue(cell) == DecodedFrame(cell[1]).rows[DecodedRow(cell)][cell[3]]

\* C3: a data cell holding None, NaN or "" is written as an empty <c>
\* element, without t attribute and without value node, and where its record
\* is returned by the decoder the cell is Null (None or NaN).
C3_NullCollapse ==
    pc = "decoded" =>
        \A cell \in DataCells :
            (IsNull(InputValue(cell)) \/ InputValue(cell) = PyStr(<<>>)) =>
                /\ WrittenCell(cell).t = NoAttr
                /\ WrittenCell(cell).v = <<>>
                /\ WrittenCell(cell).is = <<>>
                /\ cell[2] \in FilledRecords(cell[1]) =>
                      IsDecoded(cell) /\ IsNull(DecodedValue(cell))

\* a record with "" next to a number has come back with Null in its place
C3_Witness ==
    /\ pc = "decoded"
    /\ \E cell \in DataCells :
          /\ InputValue(cell) = PyStr(<<>>)
          /\ IsDecoded(cell)
          /\ IsNull(DecodedValue(cell))

\* C4: every integer in a data cell comes back from the decoder as that
\* integer (an int, neither a float nor text), and every number with a
\* fractional part comes back as the same number.
C4_NumericRoundTrip ==
    pc = "decoded" =>
        \A cell \in DataCells :
            \/ InputValue(cell).k = "int"
            \/ InputValue(cell).k = "float" /\ InputValue(cell).f # <<0>>
            => IsDecoded(cell) /\ DecodedValue(cell) = InputValue(cell)

\* C5: a Boolean in a data cell is written as a cell of type "b" with value
\* 1 or 0 (never as a plain number, never as text), and comes back from the
\* decoder as the same Boolean.
C5_BooleanRoundTrip ==
    pc = "decoded" =>
        \A cell \in DataCells :
            InputValue(cell).k = "bool" =>
                /\ WrittenCell(cell).t = "b"
                /\ WrittenCell(cell).v = <<IF InputValue(cell).b THEN <<"1">> ELSE <<"0">>>>
                /\ WrittenCell(cell).is = <<>>
                /\ IsDecoded(cell)
                /\ DecodedValue(cell) = PyBool(InputValue(cell).b)

\* a True and a False have both come back as Booleans
C5_Witness ==
    /\ pc = "decoded"
    /\ \E t, f \in DataCells :
          /\ InputValue(t) = PyBool(TRUE) /\ InputValue(f) = PyBool(FALSE)
          /\ IsDecoded(t) /\ DecodedValue(t) = PyBool(TRUE)
          /\ IsDecoded(f) /\ DecodedValue(f) = PyBool(FALSE)

\* C6: every non-empty text in a data cell - also text with & < > ", text
\* that reads as a number or as a Boolean - is written as an inline string and
\* comes back from the decoder as the identical text.
C6_TextRoundTrip ==
    pc = "decoded" =>
        \A cell \in DataCells :
            (InputValue(cell).k = "str" /\ InputValue(cell).s # <<>>) =>
                /\ WrittenCell(cell).t = "inlineStr"
                /\ IsDecoded(cell)
                /\ DecodedValue(cell) = InputValue(cell)

\* the tables whose worksheet part is missing from the buffer or is not the
\* part the encoder wrote
DamagedSheets ==
    { i \in 1..Len(sheets) :
        \/ SheetPath(i) \notin DOMAIN archive.parts
        \/ archive.parts[SheetPath(i)] # SheetXml(sheets[i].df) }

\* xl/workbook.xml and xl/_rels/workbook.xml.rels are in the buffer as written
TopLevelIntact ==
    /\ archive.zip
    /\ WorkbookPath \in DOMAIN archive.parts
    /\ WorkbookRelsPath \in DOMAIN archive.parts
    /\ archive.parts[WorkbookPath] = _write_simple_xlsx(sheets).parts[WorkbookPath]
    /\ archive.parts[WorkbookRelsPath] = _write_simple_xlsx(sheets).parts[WorkbookRelsPath]

\* the frame the decoder returns for table i from the bytes as written
UndamagedFrame(i) ==
    LET clean == _read_simple_xlsx(_write_simple_xlsx(sheets))
    IN  clean.frames[CHOOSE j \in 1..Len(clean.frames) :
                        clean.frames[j].name = SheetNames(sheets)[i]].frame

\* C1: when xl/workbook.xml and its relationships are valid and exactly one
\* declared worksheet part is unparseable or unreadable, the decoder raises
\* nothing, returns an empty table under that sheet's name and returns every
\* other sheet as it would from the undamaged bytes.
C1_PerSheetFaultIsolation ==
    (pc = "decoded" /\ TopLevelIntact /\ Cardinality(DamagedSheets) = 1) =>
        /\ result.status = "ok"
        /\ Len(result.frames) = Len(sheets)
        /\ \A i \in 1..Len(sheets) :
              DecodedFrame(i) = IF i \in DamagedSheets THEN EmptyFrame
                                ELSE UndamagedFrame(i)

Missing(path) == archive.zip /\ path \notin DOMAIN archive.parts

Unparseable(path) ==
    archive.zip /\ path \in DOMAIN archive.parts /\ archive.parts[path] = Garbage

\* the buffer is no ZIP archive, or xl/workbook.xml or its relationships part
\* is missing or unparseable
BadTopLevel ==
    \/ ~archive.zip
    \/ Missing(WorkbookPath) \/ Unparseable(WorkbookPath)
    \/ Missing(WorkbookRelsPath) \/ Unparseable(WorkbookRelsPath)

PartNames(n) ==
    { <<"[Content_Types].xml">>, <<"_rels/", ".rels">>,
      <<"docProps/", "core.xml">>, <<"docProps/", "app.xml">>,
      <<"xl/", "workbook.xml">>, <<"xl/", "_rels/workbook.xml.rels">>,
      <<"xl/", "styles.xml">> }
    \cup { <<"xl/", "worksheets/sheet">> \o NatText(i) \o <<".xml">> : i \in 1..n }

C9_EmptyPackage ==
    (pc \in {"encoded", "decoded"} /\ sheets = <<>>) =>
        /\ archive.zip
        /\ DOMAIN archive.parts = PartNames(0)
        /\ archive.parts[WorkbookPath].sheets = <<>>
        /\ pc = "decoded" => result = [status |-> "ok", frames |-> <<>>]

\* the archive of no table has been decoded
C9_Witness ==
    /\ pc = "decoded"
    /\ sheets = <<>>
    /\ Cardinality(DOMAIN archive.parts) = 7
    /\ result.status = "ok"

\* C10: the i-th table is listed in xl/workbook.xml with sheetId i and
\* relationship id rId<i>, rId<i> targets worksheets/sheet<i>.xml, the part
\* xl/worksheets/sheet<i>.xml holds the cells of the i-th table,
\* [Content_Types].xml lists exactly sheet1..sheet<n>, and the decoder returns
\* under each worksheet name the data of its own table.
C10_SheetWiring ==
    pc \in {"encoded", "decoded"} =>
        LET n == Len(sheets)
            workbook == archive.parts[WorkbookPath]
            rels == archive.parts[WorkbookRelsPath].rels
            types == archive.parts[ContentTypesPath].overrides
            sheet_part(i) == <<"xl/", "worksheets/sheet">> \o NatText(i) \o <<".xml">>
        IN  /\ Len(workbook.sheets) = n
            /\ \A i \in 1..n :
                  /\ workbook.sheets[i].sheetId = NatText(i)
                  /\ workbook.sheets[i].rid = << <<"rId">> \o NatText(i) >>
                  /\ { rels[k].Target : k \in { q \in 1..Len(rels) :
                                                  rels[q].Id = <<"rId">> \o NatText(i) } }
                       = { <<"worksheets/sheet">> \o NatText(i) \o <<".xml">> }
                  /\ archive.parts[sheet_part(i)] = SheetXml(sheets[i].df)
            /\ { types[k] : k \in 1..Len(types) } \ { <<"/">> \o WorkbookPath, <<"/">> \o StylesPath }
                 = { <<"/">> \o sheet_part(i) : i \in 1..n }
            /\ pc = "decoded" =>
                  /\ result.status = "ok"
                  /\ Len(result.frames) = n
                  /\ \A i \in 1..n :
                        /\ result.frames[i].name = WrittenNames[i]
                        /\ result.frames[i].frame
                             = FrameOfRows(SheetRows(SheetXml(sheets[i].df)))

\* two tables with different data have come back, each under its own name
C10_Witness ==
    /\ pc = "decoded"
    /\ Len(sheets) = 2
    /\ result.status = "ok"
    /\ Len(result.frames) = 2
    /\ result.frames[1].frame.rows # <<>>
    /\ result.frames[2].frame.rows # <<>>
    /\ result.frames[1].frame # result.frames[2].frame

\* the keys of the decoded map, in order
DecodedKeys == [i \in 1..Len(result.frames) |-> result.frames[i].name]

ForeignGrid == SheetRows(ForeignSheet)

\* the table decoded from that worksheet
ForeignFrame == result.frames[1].frame

\* the rows after the first that hold a value
ValueRows(grid) ==
    { i \in 2..Len(grid) :
        \E c \in 1..Len(grid[i]) : grid[i][c] \notin {PyNone, PyStr(<<>>)} }

\* the position in the decoded table of row i of the worksheet
FramePosition(grid, i) == Cardinality({ j \in ValueRows(grid) : j <= i })

\* C12: every row of a decoded sheet has the same length, the largest number
\* of cells read in one row of the sheet, and a row that was shorter is filled
\* up with Null at its end.
C12_RectangleIntegrity ==
    (pc = "decoded" /\ sheets # <<>> /\ ForeignGrid # <<>>) =>
        LET grid == ForeignGrid
            width == CHOOSE w \in { Len(grid[i]) : i \in 1..Len(grid) } :
                        \A i \in 1..Len(grid) : Len(grid[i]) <= w
        IN  /\ result.status = "ok"
            /\ Len(result.frames) = 1
            /\ Len(ForeignFrame.columns) = width
            /\ \A k \in 1..Len(ForeignFrame.rows) :
                  Len(ForeignFrame.rows[k]) = width
            /\ \A i \in ValueRows(grid) :
                  /\ FramePosition(grid, i) \in 1..Len(ForeignFrame.rows)
                  /\ \A c \in (Len(grid[i]) + 1)..width :
                        ForeignFrame.rows[FramePosition(grid, i)][c]
                           \in {PyNone, PyNaN}

\* a row of one cell below a row of three cells has come back three cells
\* long, the second and third of them Null
C12_Witness ==
    /\ pc = "decoded"
    /\ sheets # <<>>
    /\ result.status = "ok"
    /\ Len(ForeignSheet.rows) = 2
    /\ Len(ForeignSheet.rows[1].cells) = 3
    /\ Len(ForeignSheet.rows[2].cells) = 1
    /\ Len(ForeignGrid[1]) = 3
    /\ Len(ForeignGrid[2]) = 1
    /\ Len(ForeignFrame.rows) = 1
    /\ Len(ForeignFrame.rows[1]) = 3
    /\ ForeignFrame.rows[1][2] \in {PyNone, PyNaN}
    /\ ForeignFrame.rows[1][3] \in {PyNone, PyNaN}

\* C13: the first row of a worksheet is returned as an ordinary row of the
\* decoded sheet, with the values its cells decode to (a number stays a
\* number, text keeps its blanks), and is not used up as column names.
C13_FirstRowIsOrdinaryRow ==
    (/\ pc = "decoded"
     /\ sheets # <<>>
     /\ ForeignGrid # <<>>
     /\ \E c \in 1..Len(ForeignGrid[1]) :
           ForeignGrid[1][c] \notin {PyNone, PyStr(<<>>)}) =>
        /\ result.status = "ok"
        /\ Len(result.frames) = 1
        /\ Len(ForeignFrame.rows)
             = 1 + Cardinality(ValueRows(ForeignGrid))
        /\ \A c \in 1..Len(ForeignGrid[1]) :
              \/ ForeignFrame.rows[1][c] = ForeignGrid[1][c]
              \/ /\ ForeignGrid[1][c] = PyNone
                 /\ ForeignFrame.rows[1][c] = PyNaN

\* C14: no row of a decoded sheet is all Null/empty - such rows of the
\* worksheet are left out wherever they stand, every other row after the
\* first is kept - and a worksheet without rows or with empty rows only is
\* still in the result under its name, as a table without rows.
C14_EmptyRowsDropped ==
    (pc = "decoded" /\ sheets # <<>>) =>
        /\ result.status = "ok"
        /\ DecodedKeys = <<WrittenNames[1]>>
        /\ \A k \in 1..Len(ForeignFrame.rows) :
              \E c \in 1..Len(ForeignFrame.rows[k]) :
                 ForeignFrame.rows[k][c] \notin {PyNone, PyNaN, PyStr(<<>>)}
        /\ Len(ForeignFrame.rows) = Cardinality(ValueRows(ForeignGrid))
        /\ (\A i \in 1..Len(ForeignGrid) : \A c \in 1..Len(ForeignGrid[i]) :
               ForeignGrid[i][c] \in {PyNone, PyStr(<<>>)})
             => ForeignFrame.rows = <<>>

\* a worksheet with an empty row before and an empty row after its one row
\* of values has been decoded to a table of one row
C14_Witness ==
    /\ pc = "decoded"
    /\ sheets # <<>>
    /\ Len(ForeignSheet.rows) = 3
    /\ ForeignSheet.rows[1].cells # <<>>
    /\ ForeignSheet.rows[3].cells # <<>>
    /\ ValueRows(ForeignGrid) = {2}
    /\ \A c \in 1..Len(ForeignGrid[1]) : ForeignGrid[1][c] = PyNone
    /\ Len(ForeignFrame.rows) = 1
    /\ DecodedKeys = << <<"a">> >>

\* C15: _column_letter is the base-26 numbering without a zero digit (1 is
\* A, 26 is Z, 27 is AA, 52 is AZ, 702 is ZZ, 703 is AAA) and _column_index
\* is its inverse: _column_index(_column_letter(n)) = n for n >= 1 and
\* _column_letter(_column_index(s)) = s for every non-empty string s of
\* capitals.
C15_ColumnLettering ==
    /\ (call.fn = "_column_letter" /\ Len(call.ret) >= 1) =>
          /\ call.arg = 1 => call.ret[1] = <<"A">>
          /\ call.arg = 26 => call.ret[1] = <<"Z">>
          /\ call.arg = 27 => call.ret[1] = <<"A", "A">>
          /\ call.arg = 52 => call.ret[1] = <<"A", "Z">>
          /\ call.arg = 702 => call.ret[1] = <<"Z", "Z">>
          /\ call.arg = 703 => call.ret[1] = <<"A", "A", "A">>
          /\ call.arg >= 1 =>
                /\ call.ret[1] # <<>>
                /\ \A i \in 1..Len(call.ret[1]) : call.ret[1][i] \in Range(Alphabet)
    /\ (call.fn = "_column_letter" /\ Len(call.ret) = 2 /\ call.arg >= 1) =>
          call.ret[2] = call.arg
    /\ (call.fn = "_column_index" /\ Len(call.ret) >= 1) => call.ret[1] >= 1
    /\ (call.fn = "_column_index" /\ Len(call.ret) = 2) =>
          call.ret[2] = call.arg

\* 703 has been lettered AAA and AAA has been read back as 703
C15_Witness ==
    /\ call.fn = "_column_letter"
    /\ call.arg = 703
    /\ call.ret = << <<"A", "A", "A">>, 703 >>

\* v as a cell of a decoded table holds it
SameCell(v, held) ==
    \/ held = v
    \/ v = PyNone /\ held = PyNaN
    \/ v.k = "int" /\ held = IntToFloat(v)

\* C16: in every row read from a worksheet whose cells all carry a reference
\* with column letters, the value of each cell stands at the position of its
\* column (column index - 1, counted from 0), whatever the order of the cell
\* elements in the row, and a column without cell element holds Null.
C16_ColumnAlignment ==
    (pc = "decoded" /\ sheets # <<>>) =>
        /\ result.status = "ok"
        /\ \A i \in ValueRows(ForeignGrid) :
              LET cells == ForeignSheet.rows[i].cells
                  row == ForeignFrame.rows[FramePosition(ForeignGrid, i)]
                  column(j) == _column_index(LeadingLetters(cells[j].r))
              IN  (\A j \in 1..Len(cells) : LeadingLetters(cells[j].r) # <<>>) =>
                     /\ \A j \in 1..Len(cells) :
                           /\ column(j) <= Len(row)
                           /\ SameCell(_parse_cell_value(cells[j]), row[column(j)])
                     /\ \A c \in 1..Len(row) :
                           (\A j \in 1..Len(cells) : column(j) # c) =>
                               row[c] \in {PyNone, PyNaN}

\* C17: the suffix loop of _sanitize_sheet_name ends for every name and
\* every set of used names, however many earlier tables took the same name
\* (no attempt count stops it), and the name it returns was not used.
C17_SuffixLoopTerminates ==
    /\ <>(call.ret # <<>>)
    /\ [](call.ret # <<>> => call.ret[1] \notin call.used_before)

\* the eleven names that eleven earlier tables of the same long name took
\* were all tried and the call has returned with suffix _11
C17_Witness ==
    /\ call.fn = "_sanitize_sheet_name"
    /\ Cardinality(call.used_before) = 11
    /\ Len(call.sanitized) = 31
    /\ call.suffix = 12
    /\ call.ret = << Take(call.sanitized, 28) \o <<"_", "1", "1">> >>

\* C18: _sanitize_sheet_name returns: base = the name without \ / * [ ] : ?,
\* trimmed, Sheet<position> if that is empty, cut to 31 characters; base
\* itself if it is not used, else base cut to 31 - len(suffix) characters
\* plus the suffix _n for the smallest n >= 1 that gives an unused name.  The
\* returned name is added to the used names, which are otherwise unchanged.
C18_SanitizeResult ==
    (call.fn = "_sanitize_sheet_name" /\ call.ret # <<>>) =>
        LET keep(ch) == ch \notin {"\\", "/", "*", "[", "]", ":", "?"}
            trimmed == Strip(SelectSeq(call.name, keep))
            named == IF trimmed = <<>>
                     THEN <<"S", "h", "e", "e", "t">> \o NatText(call.position)
                     ELSE trimmed
            base == IF Len(named) > 31 THEN SubSeq(named, 1, 31) ELSE named
            tail(n) == <<"_">> \o NatText(n)
            cut(n) == IF Len(base) > 31 - Len(tail(n))
                      THEN SubSeq(base, 1, 31 - Len(tail(n))) ELSE base
            try(n) == cut(n) \o tail(n)
            attempts == 1..(Cardinality(call.used_before) + 1)
            expected == IF base \notin call.used_before THEN base
                        ELSE try(CHOOSE n \in attempts :
                                   /\ try(n) \notin call.used_before
                                   /\ \A m \in 1..(n - 1) : try(m) \in call.used_before)
        IN  /\ call.ret = <<expected>>
            /\ call.used = call.used_before \cup {expected}
            /\ call.ret[1] = _sanitize_sheet_name(call.name, call.position,
                                                  call.used_before)

\* a name with blanks around it that two earlier tables had has come back
\* trimmed and with suffix _2
C18_Witness ==
    /\ call.fn = "_sanitize_sheet_name"
    /\ call.name = <<" ", "a", " ">>
    /\ call.used_before = { <<"a">>, <<"a", "_", "1">> }
    /\ call.ret = << <<"a", "_", "2">> >>
    /\ call.used = { <<"a">>, <<"a", "_", "1">>, <<"a", "_", "2">> }

\* C19: the worksheet of a table has one row element per row, numbered 1..R
\* in order, the column names first when there are columns; every row has
\* exactly C cells, C the largest number of cells of a row, with references
\* <letter(c)><r> for c = 1..C in this order; the dimension is
\* A1:<letter(C)><R>, and A1 for a table without rows and columns.
C19_GridShape ==
    pc \in {"encoded", "decoded"} =>
        \A i \in 1..Len(sheets) :
            LET df == sheets[i].df
                part == archive.parts[SheetPath(i)]
                header == IF df.columns = <<>> THEN 0 ELSE 1
                R == header + Len(df.rows)
                C == IF R = 0 THEN 0
                     ELSE CHOOSE n \in 0..MaxCells :
                            /\ \A k \in 1..Len(df.rows) : Len(df.rows[k]) <= n
                            /\ Len(df.columns) <= n
                            /\ \/ Len(df.columns) = n
                               \/ \E k \in 1..Len(df.rows) : Len(df.rows[k]) = n
            IN  /\ Len(part.rows) = R
                /\ \A r \in 1..R :
                      /\ part.rows[r].r = r
                      /\ Len(part.rows[r].cells) = C
                      /\ \A c \in 1..C :
                            part.rows[r].cells[c].r = <<Alphabet[c]>> \o NatText(r)
                /\ header = 1 =>
                      \A c \in 1..Len(df.columns) :
                          /\ part.rows[1].cells[c].t = "inlineStr"
                          /\ part.rows[1].cells[c].is = <<Escape(StrOf(df.columns[c]))>>
                /\ \A k \in 1..Len(df.rows) : \A c \in 1..Len(df.rows[k]) :
                      part.rows[header + k].cells[c]
                         = EncodeCell(<<Alphabet[c]>> \o NatText(header + k),
                                      IF IsNull(df.rows[k][c]) THEN PyStr(<<>>)
                                      ELSE df.rows[k][c])
                /\ part.dimension
                     = IF C = 0 THEN <<"A", "1">>
                       ELSE <<"A", "1", ":", Alphabet[C]>> \o NatText(R)

\* a table of two columns and one record and a table without columns have
\* been written: dimensions A1:B2 and A1
C19_Witness ==
    /\ pc = "encoded"
    /\ Len(sheets) = 2
    /\ Len(sheets[1].df.columns) = 2
    /\ Len(sheets[1].df.rows) = 1
    /\ sheets[2].df.columns = <<>>
    /\ archive.parts[SheetPath(1)].dimension = <<"A", "1", ":", "B", "2">>
    /\ archive.parts[SheetPath(2)].dimension = <<"A", "1">>
    /\ archive.parts[SheetPath(2)].rows = <<>>

\* C20: a cell is written by the kind of its value, in this order: None, NaN
\* and "" give a cell without t attribute and without value; a Boolean gives
\* t="b" and the value 1 or 0; a number that is no Boolean gives a value node
\* and no t attribute; anything else gives t="inlineStr".  So the t attribute
\* of every cell written is absent, "b" or "inlineStr", and a Boolean is
\* never written as a number.
C20_EncodingDispatch ==
    pc \in {"encoded", "decoded"} =>
        /\ \A cell \in DataCells :
              LET value == InputValue(cell)
                  written == WrittenCell(cell)
              IN  CASE value.k \in {"none", "nan"} \/ value = [k |-> "str", s |-> <<>>] ->
                          /\ written.t = "(absent)"
                          /\ written.v = <<>>
                          /\ written.is = <<>>
                    [] value.k = "bool" ->
                          /\ written.t = "b"
                          /\ written.v = IF value.b THEN << <<"1">> >> ELSE << <<"0">> >>
                          /\ written.is = <<>>
                    [] value.k \in {"int", "float"} ->
                          /\ written.t = "(absent)"
                          /\ Len(written.v) = 1
                          /\ written.v[1] # <<>>
                          /\ written.is = <<>>
                    [] OTHER ->
                          /\ written.t = "inlineStr"
                          /\ written.v = <<>>
                          /\ Len(written.is) = 1
        /\ \A i \in 1..Len(sheets) :
              LET rows == archive.parts[SheetPath(i)].rows
              IN  \A r \in 1..Len(rows) : \A c \in 1..Len(rows[r].cells) :
                     rows[r].cells[c].t \in {"(absent)", "b", "inlineStr"}

\* a record of True and 1500 has been written: t="b" with value 1 next to a
\* value 1500 without t attribute
C20_Witness ==
    /\ pc = "encoded"
    /\ \E cell \in DataCells :
          /\ cell[3] = 1
          /\ InputValue(cell) = PyBool(TRUE)
          /\ WrittenCell(cell).t = "b"
          /\ WrittenCell(cell).v = << <<"1">> >>
          /\ <<cell[1], cell[2], 2>> \in DataCells
          /\ InputValue(<<cell[1], cell[2], 2>>) = PyInt(FALSE, <<1, 5, 0, 0>>)
          /\ WrittenCell(<<cell[1], cell[2], 2>>).t = "(absent)"
          /\ WrittenCell(<<cell[1], cell[2], 2>>).v = << <<"1", "5", "0", "0">> >>

\* C21: a float without fractional part (3.0, 1500.0) is written as a value
\* node whose text has no ".0" - the text the integer of that value gives.
C21_IntegralFloatText ==
    pc \in {"encoded", "decoded"} =>
        \A cell \in DataCells :
            (InputValue(cell).k = "float" /\ InputValue(cell).f = <<0>>) =>
                /\ WrittenCell(cell).t = "(absent)"
                /\ WrittenCell(cell).v
                     = << SignText(InputValue(cell).neg)
                          \o DigitsText(InputValue(cell).d) >>

\* the digits of a text of digits, without leading zeros
DigitsOfText(text) ==
    StripLeadingZeros([i \in 1..Len(text) |-> DigitOf(text[i])])

\* C22: an untyped cell whose value node is not empty decodes to the integer
\* the text names when the text is a number without fractional part, to the
\* float when it is a number with fractional part, and to the text itself
\* when it is no number; it never decodes to Null.
C22_UntypedDecode ==
    (call.fn = "_parse_cell_value" /\ call.ret # <<>>) =>
        LET text == call.arg
            decoded == call.ret[1]
            trimmed == Strip(text)
            negative == trimmed # <<>> /\ Head(trimmed) = "-"
            body == IF negative THEN Tail(trimmed) ELSE trimmed
            dots == { i \in 1..Len(body) : body[i] = "." }
            whole == IF dots = {} THEN body
                     ELSE SubSeq(body, 1, (CHOOSE i \in dots : TRUE) - 1)
            fraction == IF dots = {} THEN <<>>
                        ELSE SubSeq(body, (CHOOSE i \in dots : TRUE) + 1, Len(body))
            is_number == /\ Cardinality(dots) <= 1
                         /\ \A i \in 1..Len(body) : body[i] \in Range(DigitChars) \cup {"."}
                         /\ Len(whole) + Len(fraction) > 0
            is_whole == \A i \in 1..Len(fraction) : fraction[i] = "0"
        IN  /\ decoded \notin {PyNone, PyNaN}
            /\ (is_number /\ is_whole) =>
                  /\ decoded.k = "int"
                  /\ decoded.d = DigitsOfText(whole)
                  /\ decoded.neg = (negative /\ DigitsOfText(whole) # <<0>>)
            /\ (is_number /\ ~is_whole) =>
                  /\ decoded.k = "float"
                  /\ decoded.neg = negative
                  /\ decoded.d = DigitsOfText(whole)
            /\ ~is_number => decoded = PyStr(text)

\* C23: nothing is kept from one call of the codec to the next: the used
\* names are empty when an export starts, so whatever was exported and
\* imported before, the export of a list of tables gives the worksheet
\* names and worksheet parts of a first export of it, and the import of a
\* buffer gives what a first import of it gives.
C23_NoStateBetweenCalls ==
    /\ (pc = "encoding" /\ call.sheet_entries = <<>>) => call.used_names = {}
    /\ pc \in {"encoded", "decoded"} =>
          /\ WrittenNames = SheetNames(sheets)
          /\ \A i \in 1..Len(sheets) :
                archive.parts[SheetPath(i)] = SheetXml(sheets[i].df)
          /\ archive = _write_simple_xlsx(sheets)
    /\ pc = "decoded" => result = _read_simple_xlsx(_write_simple_xlsx(sheets))

\* the tables exported and imported in the first call have been exported and
\* imported again, with the same two worksheet names
C23_Witness ==
    /\ pc = "decoded"
    /\ Len(call.earlier) = 1
    /\ call.earlier[1] = sheets
    /\ Len(sheets) = 2
    /\ WrittenNames = << <<"a">>, <<"a", "_", "1">> >>
    /\ DecodedKeys = WrittenNames

\* C24: export_db_to_excel_bytes tries the openpyxl writer first, the
\* xlsxwriter writer only after openpyxl raised ModuleNotFoundError, and the
\* simple encoder only after both raised ModuleNotFoundError; any other
\* error of a library writer reaches the caller and the simple encoder does
\* not run.
C24_WriterFallbackOrder ==
    call # NoCall =>
        LET tried == call.tried
            order == <<"openpyxl", "xlsxwriter", "simple">>
        IN  /\ Len(tried) \in 1..3
            /\ \A i \in 1..Len(tried) : tried[i].engine = order[i]
            /\ \A i \in 1..(Len(tried) - 1) :
                  tried[i].outcome = "ModuleNotFoundError"
            /\ pc = "raised" <=>
                  tried[Len(tried)].outcome \notin {"ok", "ModuleNotFoundError"}
            /\ pc = "raised" =>
                  /\ tried[Len(tried)].engine # "simple"
                  /\ archive = [zip |-> FALSE, parts |-> <<>>]
            /\ pc = "encoded" <=> tried[Len(tried)].outcome = "ok"
            /\ pc = "encoded" =>
                  archive = IF Len(tried) = 3 THEN _write_simple_xlsx(sheets)
                            ELSE [zip |-> TRUE, engine |-> order[Len(tried)]]

\* both libraries were missing and the simple encoder has written a table
C24_Witness ==
    /\ pc = "encoded"
    /\ call # NoCall
    /\ Len(call.tried) = 3
    /\ call.tried[1].outcome = "ModuleNotFoundError"
    /\ call.tried[2].outcome = "ModuleNotFoundError"
    /\ call.tried[3].engine = "simple"
    /\ sheets # <<>>
    /\ SheetPath(1) \in DOMAIN archive.parts

\* C25: _read_excel_workbook runs the simple decoder only when the library
\* reader failed with a ModuleNotFoundError or ImportError whose message
\* mentions openpyxl; the stream is then rewound, so the simple decoder reads
\* the whole file; any other error of the library reader is raised again and
\* the simple decoder does not run.
C25_ReaderFallback ==
    (call # NoCall /\ call.library # <<>>) =>
        LET outcome == call.library[1]
            missing == /\ outcome.error \in {"ModuleNotFoundError", "ImportError"}
                       /\ outcome.openpyxl
        IN  /\ call.simple # <<>> => missing
            /\ (missing /\ pc = "decoded") =>
                  /\ call.simple = <<archive>>
                  /\ result = _read_simple_xlsx(archive)
            /\ (outcome.error # "none" /\ ~missing) =>
                  /\ pc = "raised"
                  /\ call.simple = <<>>
                  /\ result = [status |-> outcome.error, frames |-> <<>>]
            /\ outcome.error = "none" =>
                  /\ pc = "decoded"
                  /\ call.simple = <<>>

\* pandas read a file object to somewhere and failed for want of openpyxl;
\* the simple decoder has still decoded the table
C25_Witness ==
    /\ pc = "decoded"
    /\ call # NoCall
    /\ call.handle = "file"
    /\ call.library = <<[error |-> "ImportError", openpyxl |-> TRUE]>>
    /\ call.simple = <<archive>>
    /\ sheets # <<>>
    /\ result.status = "ok"
    /\ Len(result.frames) = Len(sheets)

\* the sheet of an upload under the name of a table
IsKey(table) == \E i \in 1..Len(sheets) : sheets[i].name = table

SheetOf(table) ==
    (sheets[CHOOSE i \in 1..Len(sheets) : sheets[i].name = table]).df

\* the sheet lacks a required column, or holds a cell that cannot be
\* normalized for its column
CannotImport(table) ==
    LET df == SheetOf(table)
        columns == EXPECTED_IMPORT_COLUMNS[table]
    IN  \/ \E c \in 1..Len(columns) : columns[c] \notin Range(df.columns)
        \/ \E i \in 1..Len(df.rows) : \E c \in 1..Len(columns) :
              /\ columns[c] \in Range(df.columns)
              /\ IsRaise(_normalize_import_value(
                    df.rows[i][ColumnPosition(df, columns[c])], columns[c]))

\* C26: import is all or nothing: when import_db_from_frames fails on a
\* sheet (a required column is missing, a cell cannot be normalized for its
\* column), every table of the database holds the rows it held before the
\* call, the tables emptied and filled earlier in the call too, and the call
\* returns (False, [message]).
C26_ImportAllOrNothing ==
    pc = "imported" =>
        /\ (\E t \in Range(TABLE_NAMES) : IsKey(t) /\ CannotImport(t)) =>
              ~result.ok
        /\ ~result.ok =>
              /\ \A t \in Range(TABLE_NAMES) : db[t] = call.before[t]
              /\ Len(result.messages) = 1
              /\ IsRaise(result.messages[1])

\* the sheet of students was imported over other rows of students, then a
\* cell of the sheet of payments could not be normalized
C26_Witness ==
    /\ pc = "imported"
    /\ ~result.ok
    /\ IsKey("students") /\ ~CannotImport("students")
    /\ Len(SheetOf("students").rows) = 2
    /\ Len(call.before.students) = 1
    /\ IsKey("payments") /\ CannotImport("payments")
    /\ result.messages[1].at = "tarih"
    /\ db = call.before

\* row i of the table is row i of the sheet, its cells normalized; a row
\* without id got one
IsSheetRow(row, table, i) ==
    LET df == SheetOf(table)
    IN  \A c \in Range(EXPECTED_IMPORT_COLUMNS[table]) :
            LET cell == _normalize_import_value(
                            df.rows[i][ColumnPosition(df, c)], c)
            IN  IF c = "id" /\ cell = PyNone THEN row[c].k = "int"
                ELSE row[c] = cell

\* C27: a successful import replaces each expected table whose name is a key
\* of the input: its earlier rows are gone and it holds one row per row of its
\* sheet, none for an empty sheet; a table whose name is no key is left as it
\* was; with no expected name among the keys the database is unchanged and the
\* call returns success with the message that the expected sheets were not
\* found.
C27_ImportReplaces ==
    (pc = "imported" /\ result.ok) =>
        /\ \A t \in Range(TABLE_NAMES) :
              IF IsKey(t)
              THEN /\ Len(db[t]) = Len(SheetOf(t).rows)
                   /\ \A i \in 1..Len(db[t]) : IsSheetRow(db[t][i], t, i)
              ELSE db[t] = call.before[t]
        /\ (\A t \in Range(TABLE_NAMES) : ~IsKey(t)) =>
              /\ db = call.before
              /\ result.messages = <<NoExpectedSheets>>
        /\ (\E t \in Range(TABLE_NAMES) : IsKey(t)) =>
              Len(result.messages) =
                  Cardinality({t \in Range(TABLE_NAMES) : IsKey(t)})

\* two rows replace the one row of students, the second gets its id from
\* SQLite, and groups, not in the upload, keeps its row
C27_Witness ==
    /\ pc = "imported"
    /\ result.ok
    /\ IsKey("students")
    /\ Len(call.before.students) = 1
    /\ Len(db.students) = 2
    /\ db.students[2].id = PyInt(FALSE, <<3>>)
    /\ ~IsKey("groups")
    /\ Len(db.groups) = 1
    /\ IsKey("notlar")

\* the invoices with the id
InvoicesWithId(tables, invoice_id) ==
    { i \in 1..Len(tables.invoices) : tables.invoices[i].id = invoice_id }

\* add_invoice creates one invoice, in status 'bekliyor'
AddInvoiceCreatesBekliyor ==
    (call # NoCall /\ call.fn = "add_invoice") =>
        /\ Len(db.invoices) = Len(call.before.invoices) + 1
        /\ db.invoices[Len(db.invoices)].durum = "bekliyor"
        /\ SubSeq(db.invoices, 1, Len(call.before.invoices)) = call.before.invoices
        /\ db.payments = call.before.payments

\* compute_status_rollover changes the invoices that are 'bekliyor' and due
\* before today to 'gecikti', and nothing else
RolloverChangesOnlyOverdue ==
    (call # NoCall /\ call.fn = "compute_status_rollover") =>
        /\ Len(db.invoices) = Len(call.before.invoices)
        /\ \A i \in 1..Len(db.invoices) :
              LET old == call.before.invoices[i]
              IN  IF old.durum = "bekliyor" /\ old.son_odeme_tarihi < call.today
                  THEN db.invoices[i] = [old EXCEPT !.durum = "gecikti"]
                  ELSE db.invoices[i] = old
        /\ db.payments = call.before.payments

\* an invoice that was 'odendi' before a call is 'odendi' after it
OdendiStays ==
    call # NoCall =>
        \A i \in 1..Len(call.before.invoices) :
            call.before.invoices[i].durum = "odendi" =>
                /\ i <= Len(db.invoices)
                /\ db.invoices[i].id = call.before.invoices[i].id
                /\ db.invoices[i].durum = "odendi"

\* the status and the payment row of mark_paid are committed together: the
\* other connections see neither before the commit and both after it
MarkPaidOneCommit ==
    (call # NoCall /\ call.fn = "mark_paid") =>
        IF call.at = "done"
        THEN /\ \A i \in InvoicesWithId(db, call.invoice_id) :
                    db.invoices[i].durum = "odendi"
             /\ Len(db.payments) = Len(call.before.payments) + 1
             /\ db.payments[Len(db.payments)].invoice_id = call.invoice_id
        ELSE db = call.before

\* every mark_paid call has an invoice whose status it made 'odendi'
MarkPaidChangesStatus ==
    (call # NoCall /\ call.fn = "mark_paid" /\ call.at = "done") =>
        \E i \in InvoicesWithId(db, call.invoice_id) :
            db.invoices[i].durum = "odendi"

\* C28: add_invoice creates an invoice in status 'bekliyor';
\* compute_status_rollover changes only the invoices that are 'bekliyor' with
\* a due date before today, to 'gecikti'; so an invoice that has reached
\* 'odendi' stays 'odendi' whatever is called; and every mark_paid call
\* changes the status of the invoice and inserts its payment row in the same
\* commit.
C28_InvoiceStatus ==
    /\ AddInvoiceCreatesBekliyor
    /\ RolloverChangesOnlyOverdue
    /\ OdendiStays
    /\ MarkPaidOneCommit
    /\ MarkPaidChangesStatus

\* what holds of the code: the claim without the invoice of every mark_paid
C28_ExceptMissingInvoice ==
    /\ AddInvoiceCreatesBekliyor
    /\ RolloverChangesOnlyOverdue
    /\ OdendiStays
    /\ MarkPaidOneCommit

\* a user is logged in: the last thing done to the session was a login
LoggedIn == call.fn = "start_user_session"

\* C29: after any logins through the form, shown only while the session is
\* not authenticated, and logouts, get_current_user returns None exactly when
\* no user is logged in, and else the username, role, display name and
\* coach_code of the user who logged in last; the five keys are gone after
\* end_user_session, so the coach_code of an earlier session of a coach is not
\* seen in a later session of a user without one.
C29_LoginSession ==
    /\ get_current_user(session_state) = <<>> <=> ~LoggedIn
    /\ LoggedIn =>
          LET user == USERS[call.username]
          IN  get_current_user(session_state) =
                  <<[username |-> user.username, role |-> user.role,
                     display_name |-> user.display_name,
                     coach_code |-> user.coach_code]>>
    /\ call.fn = "end_user_session" =>
          DOMAIN session_state \cap {"authenticated", "username", "role",
                                     "display_name", "coach_code"} = {}

\* the coach logged in and out, then the administrator logged in, and the
\* page got the administrator without a coach_code
C29_Witness ==
    /\ LoggedIn
    /\ call.username = "crm_admin"
    /\ "coach_ahmet" \in call.earlier
    /\ result.frames = get_current_user(session_state)
    /\ result.frames # <<>>
    /\ result.frames[1].coach_code = None

\* the declared sheet has a relationship id and the id has a Relationship
IsWired(i) ==
    LET sheet == DeclaredSheets(archive)[i]
    IN  /\ sheet.rid # <<>>
        /\ \E r \in 1..Len(Relationships(archive)) :
              Relationships(archive)[r].Id = sheet.rid[1]

DeclaredName(i) == XmlAttr(DeclaredSheets(archive)[i].name[1])

\* the wired sheets declared under the name
WiredAs(name) ==
    { i \in 1..Len(DeclaredSheets(archive)) : IsWired(i) /\ DeclaredName(i) = name }

\* what the decoder gives for the export as written: frame i is that of
\* table i
FramesAsWritten == _read_simple_xlsx(_write_simple_xlsx(sheets)).frames

\* C30: a sheet declared in xl/workbook.xml without relationship id, or with
\* an id that has no entry in xl/_rels/workbook.xml.rels, is left out of what
\* the decoder returns - no key, no empty table - and nothing is raised; the
\* other declared sheets are decoded; of two declared sheets of one name the
\* result has one entry, with the data of the later one.
C30_UnwiredAndRepeatedSheets ==
    pc = "decoded" =>
        LET written == FramesAsWritten
        IN  /\ result.status = "ok"
            /\ \A i \in 1..Len(DeclaredSheets(archive)) :
                  (\E j \in 1..Len(result.frames) :
                      result.frames[j].name = DeclaredName(i))
                  <=> WiredAs(DeclaredName(i)) # {}
            /\ \A j \in 1..Len(result.frames) :
                  LET wired == WiredAs(result.frames[j].name)
                  IN  /\ wired # {}
                      /\ result.frames[j].frame =
                            written[CHOOSE i \in wired : \A k \in wired : k <= i].frame
                      /\ \A k \in 1..Len(result.frames) :
                            result.frames[k].name = result.frames[j].name => k = j

\* three sheets are declared: the first has no r:id, the third has the name
\* of the second and other data; the result is the one entry with the data of
\* the third
C30_Witness ==
    /\ pc = "decoded"
    /\ Len(DeclaredSheets(archive)) = 3
    /\ DeclaredSheets(archive)[1].rid = <<>>
    /\ DeclaredName(2) = DeclaredName(3)
    /\ FramesAsWritten[2].frame # FramesAsWritten[3].frame
    /\ FramesAsWritten[2].frame.rows # <<>>
    /\ result.status = "ok"
    /\ Len(result.frames) = 1
    /\ result.frames[1].frame = FramesAsWritten[3].frame

====
